---------------------------- MODULE Spec2Model ----------------------------
(***************************************************************************)
(* Model of the Arazzo VS Code extension.                                  *)
(*                                                                         *)
(*   - the structural validator of src/src/extension.ts (validate,         *)
(*     validateArazzo, validateStep, checkRequired, addDiagnostic), run    *)
(*     by the document-open and document-change handlers;                  *)
(*   - the flowchart generator of webview-ui/src/lib/mermaid-converter.ts  *)
(*     (workflowToMermaidFlowchart, sanitizeId);                           *)
(*   - the live preview pipeline: ArazzoPreviewPanel._updateSpec on the    *)
(*     extension side, App's message handler and MermaidDiagram's          *)
(*     renderChart effect on the webview side;                             *)
(*   - the editors of the webview: ActionList, WorkflowInputsEditor and    *)
(*     ExpressionInput.                                                    *)
(*                                                                         *)
(* The specifications share the variables: Spec (validation), SpecGraph    *)
(* and SpecIds (flowchart generation), SpecPreview and SpecPreviewLive     *)
(* (preview pipeline, the latter with its scheduling), SpecBuild (the      *)
(* outline and the flowchart as derived artifacts), SpecPanels (the        *)
(* registry of preview panels), SpecDocs (several open documents),         *)
(* SpecActions (ActionList), SpecInputs (WorkflowInputsEditor) and         *)
(* SpecExpr (ExpressionInput).                                             *)
(***************************************************************************)
EXTENDS Integers, Sequences, FiniteSets, TLC

VARIABLES
    doc,            \* the text document: [lang, errors, root]
    nChanges,       \* number of change events the document has received
    diagnostics,    \* diagnosticCollection entry of the document
    symbols,        \* the document symbols last returned to the host
    symbolsAt,      \* nChanges when they were requested, -1 before any request
    workflow,       \* the workflow the webview shows: [steps, outputs]
    hideErrorFlows, \* MermaidOptions.hideErrorFlows
    nodes,          \* node statements of the generated flowchart
    edges,          \* edge statements of the generated flowchart
    rebuilt,        \* the last call of the generator had the arguments of the one before
    docVersion,     \* preview: version of the document text
    docIsMap,       \* preview: whether the parsed root of the text is a map
    panelOpen,      \* preview: ArazzoPreviewPanel.panels has the document
    readyPending,   \* preview: the webview's 'ready' message is in flight
    awaiting,       \* preview: _updateSpec calls awaiting openTextDocument
    channel,        \* preview: messages posted to the webview, in order
    webSpec,        \* preview: App's spec state (document version, 0 = emptySpec)
    viewMode,       \* preview: App's viewMode state
    rendering,      \* preview: mermaid.render calls in flight (chart versions)
    svgContent,     \* preview: MermaidDiagram's svgContent (chart version, 0 = '')
    panels,         \* ArazzoPreviewPanel.panels: key -> panel
    created,        \* the panels created so far
    disposed,       \* the panels whose dispose() has run
    updating,       \* the panels with an _updateSpec call awaiting the document
    posted,         \* the panels whose webview was posted an 'update' message
    latePosts,      \* the panels whose webview was posted one after dispose()
    thrown,         \* the panels whose _updateSpec caught an error
    documents,      \* the open text documents: uri -> [lang, errors, root]
    diagnosticCollection, \* the diagnostics set for each uri
    actions,        \* ActionFormEditor: the actions prop
    showAddForm,    \* ActionFormEditor: showAddForm state
    editingIndex,   \* ActionFormEditor: editingIndex state, -1 for null
    formData,       \* ActionFormEditor: formData state
    namesTyped,     \* ActionFormEditor: number of names the user has typed
    inputs,         \* WorkflowInputsEditor: the inputs prop [properties, required]
    value,          \* ExpressionInput: the value prop
    cursor,         \* ExpressionInput: selectionStart of the input element
    focused,        \* ExpressionInput: the input element has the focus
    showDropdown,   \* ExpressionInput: showDropdown state
    selectedIndex,  \* ExpressionInput: selectedIndex state
    filter          \* ExpressionInput: filter state

valVars == <<doc, nChanges, diagnostics>>
outlineVars == <<symbols, symbolsAt>>
registryVars == <<panels, created, disposed, updating, posted, latePosts, thrown>>
collectionVars == <<documents, diagnosticCollection>>
formVars == <<actions, showAddForm, editingIndex, formData, namesTyped>>
inputsVars == <<inputs>>
exprVars == <<value, cursor, focused, showDropdown, selectedIndex, filter>>
uiVars == <<formVars, inputsVars, exprVars>>
graphVars == <<workflow, hideErrorFlows, nodes, edges, rebuilt>>
previewVars == <<docVersion, docIsMap, panelOpen, readyPending, awaiting, channel,
                 webSpec, viewMode, rendering, svgContent>>
vars == <<doc, nChanges, diagnostics, symbols, symbolsAt, workflow, hideErrorFlows, nodes, edges,
          rebuilt,
          docVersion, docIsMap, panelOpen, readyPending, awaiting, channel,
          webSpec, viewMode, rendering, svgContent,
          panels, created, disposed, updating,
          documents, diagnosticCollection,
          posted, latePosts, thrown,
          actions, showAddForm, editingIndex, formData, namesTyped,
          inputs,
          value, cursor, focused, showDropdown, selectedIndex, filter>>

(***************************************************************************)
(* Bounds of the model.                                                    *)
(***************************************************************************)
\* change events a document receives
MaxChanges == 3
\* items a YAML sequence of the document holds
MaxItems == 2
\* steps of the workflow shown in the flowchart
MaxSteps == 3
\* onSuccess and onFailure actions of the workflow, all steps together
MaxActions == 2
\* preview panels created in a session
MaxPanels == 3
MaxLen == 3

(***************************************************************************)
(* Generic helpers.                                                        *)
(***************************************************************************)
RECURSIVE Flatten(_)
Flatten(ss) == IF ss = <<>> THEN <<>> ELSE Head(ss) \o Flatten(Tail(ss))

Range(s) == {s[i] : i \in DOMAIN s}

Count(s, P(_)) == Cardinality({i \in DOMAIN s : P(s[i])})

\* String(i) of a one-digit number
Digit(i) == <<"0", "1", "2", "3", "4", "5", "6", "7", "8", "9">>[i + 1]

(***************************************************************************)
(* The YAML document tree.  The parser is external: a document is kept as  *)
(* the tree it parses to.  A node is a scalar, a map (a function from the  *)
(* keys present to nodes) or a sequence.                                   *)
(***************************************************************************)
Scalar(v) == [kind |-> "scalar", value |-> v]
MapNode(f) == [kind |-> "map", items |-> f]
SeqNode(s) == [kind |-> "seq", items |-> s]
EmptyMap == MapNode(<<>>)

\* slot of a key inside its map, used to lay out source ranges
KeyIndex(k) ==
    CASE k \in {"arazzo", "title", "name", "stepId", "summary", "available"} -> 1
      [] k \in {"info", "version", "url", "steps", "operationId"} -> 2
      [] k \in {"sourceDescriptions", "type", "operationPath", "outputs"} -> 3
      [] k \in {"workflows", "workflowId"} -> 4
      [] k \in {"description"} -> 5

\* parseDocument: every node gets range = <<start, valueEnd, nodeEnd>>; a
\* child's range lies inside its parent's and distinct nodes have distinct
\* ranges.  A map keeps the range of each of its keys, which lies just
\* before the key's value; the pairs of a map are in the order of KeyIndex.
RECURSIVE Annotate(_, _, _)
Annotate(n, start, span) ==
    LET r == <<start, start + span - 1, start + span>>
        sub == span \div 10
    IN CASE n.kind = "scalar" ->
              [kind |-> "scalar", value |-> n.value, range |-> r]
         [] n.kind = "seq" ->
              [kind |-> "seq", range |-> r,
               items |-> [i \in DOMAIN n.items |->
                            Annotate(n.items[i], start + i * sub, sub)]]
         [] n.kind = "map" ->
              [kind |-> "map", range |-> r,
               keys |-> [k \in DOMAIN n.items |->
                           LET slot == start + KeyIndex(k) * sub
                           IN <<slot, slot + 1, slot + 1>>],
               items |-> [k \in DOMAIN n.items |->
                            Annotate(n.items[k], start + KeyIndex(k) * sub + 1, sub - 1)]]

parseDocument(d) ==
    [errors |-> d.errors, contents |-> Annotate(d.root, 0, 10000000)]

isMap(n) == n.kind = "map"
isSeq(n) == n.kind = "seq"
isScalar(n) == n.kind = "scalar"
has(n, k) == k \in DOMAIN n.items
get(n, k) == n.items[k]

(***************************************************************************)
(* Diagnostics.  A message is the sequence of the parts of its template.   *)
(***************************************************************************)
MissingMsg(field) == <<"Missing required field: ", field>>
StepOperationMsg ==
    <<"Step must contain one of ", "operationId", ", ", "operationPath",
      ", or ", "workflowId">>

\* x || y on numbers: 0 is falsy
OrElse(x, y) == IF x # 0 THEN x ELSE y

\* mutant: the diagnostic ends at the value's end, not at the node's end
addDiagnostic_ValueEnd(node, message) ==
    [range |-> <<OrElse(node.range[1], 0), OrElse(node.range[2], 0)>>,
     message |-> message, severity |-> "Error"]

addDiagnostic(node, message) ==
    LET rangeStart == OrElse(node.range[1], 0)
        rangeEnd == OrElse(node.range[3], OrElse(node.range[2], 0))
    IN [range |-> <<rangeStart, rangeEnd>>, message |-> message,
        severity |-> "Error"]

\* mutant: the check stops at the first missing field
checkRequired_FirstOnly(node, fields) ==
    LET missing == SelectSeq(fields, LAMBDA f : ~has(node, f))
    IN IF missing = <<>> THEN <<>>
       ELSE <<addDiagnostic(node, MissingMsg(missing[1]))>>

checkRequired(node, fields) ==
    LET missing == SelectSeq(fields, LAMBDA f : ~has(node, f))
    IN [i \in DOMAIN missing |-> addDiagnostic(node, MissingMsg(missing[i]))]

\* mutant: workflowId is not accepted as an operation reference
validateStep_NoWorkflowId(step) ==
    LET hasOperation == has(step, "operationId") \/ has(step, "operationPath")
    IN checkRequired(step, <<"stepId">>)
       \o (IF ~hasOperation
           THEN <<addDiagnostic(step, StepOperationMsg)>>
           ELSE <<>>)

validateStep(step) ==
    LET hasOperation == \/ has(step, "operationId")
                        \/ has(step, "operationPath")
                        \/ has(step, "workflowId")
    IN checkRequired(step, <<"stepId">>)
       \o (IF ~hasOperation
           THEN <<addDiagnostic(step, StepOperationMsg)>>
           ELSE <<>>)

\* mutant: a source description's type is required
validateSourceDescription_TypeRequired(item) ==
    IF isMap(item)
    THEN checkRequired(item, <<"name", "url", "type">>)
    ELSE <<>>

validateSourceDescription(item) ==
    IF isMap(item)
    THEN checkRequired(item, <<"name", "url">>)
         \o (IF /\ has(item, "type")
                /\ isScalar(get(item, "type"))
                /\ get(item, "type").value \notin {"openapi", "arazzo"}
             THEN <<addDiagnostic(get(item, "type"),
                                  <<"Type must be \"openapi\" or \"arazzo\"">>)>>
             ELSE <<>>)
    ELSE <<>>

\* mutant: the steps after the first step that has a diagnostic are skipped
validateSteps_FailFast(steps) ==
    IF isSeq(steps)
    THEN LET per == [i \in DOMAIN steps.items |->
                       IF isMap(steps.items[i])
                       THEN validateStep(steps.items[i])
                       ELSE <<>>]
             failed == {i \in DOMAIN per : per[i] # <<>>}
         IN (IF Len(steps.items) = 0
             THEN <<addDiagnostic(steps, <<"steps must have at least one entry">>)>>
             ELSE <<>>)
            \o Flatten([i \in DOMAIN per |->
                          IF \E f \in failed : f < i THEN <<>> ELSE per[i]])
    ELSE <<addDiagnostic(steps, <<"steps must be an array">>)>>

\* mutant: an empty steps sequence is accepted
validateSteps_EmptyAccepted(steps) ==
    IF isSeq(steps)
    THEN Flatten([i \in DOMAIN steps.items |->
                    IF isMap(steps.items[i])
                    THEN validateStep(steps.items[i])
                    ELSE <<>>])
    ELSE <<addDiagnostic(steps, <<"steps must be an array">>)>>

validateSteps(steps) ==
    IF isSeq(steps)
    THEN (IF Len(steps.items) = 0
          THEN <<addDiagnostic(steps, <<"steps must have at least one entry">>)>>
          ELSE <<>>)
         \o Flatten([i \in DOMAIN steps.items |->
                       IF isMap(steps.items[i])
                       THEN validateStep(steps.items[i])
                       ELSE <<>>])
    ELSE <<addDiagnostic(steps, <<"steps must be an array">>)>>

validateWorkflow(wf) ==
    IF isMap(wf)
    THEN checkRequired(wf, <<"workflowId", "steps">>)
         \o (IF has(wf, "steps") THEN validateSteps(get(wf, "steps")) ELSE <<>>)
    ELSE <<>>

validateArazzo(root) ==
    checkRequired(root, <<"arazzo", "info", "sourceDescriptions", "workflows">>)
    \o (IF has(root, "info") /\ isMap(get(root, "info"))
        THEN checkRequired(get(root, "info"), <<"title", "version">>)
        ELSE <<>>)
    \o (IF has(root, "sourceDescriptions")
        THEN LET sds == get(root, "sourceDescriptions")
             IN IF isSeq(sds)
                THEN (IF Len(sds.items) = 0
                      THEN <<addDiagnostic(sds,
                               <<"sourceDescriptions must have at least one entry">>)>>
                      ELSE <<>>)
                     \o Flatten([i \in DOMAIN sds.items |->
                                   validateSourceDescription(sds.items[i])])
                ELSE <<addDiagnostic(sds, <<"sourceDescriptions must be an array">>)>>
        ELSE <<>>)
    \o (IF has(root, "workflows")
        THEN LET wfs == get(root, "workflows")
             IN IF isSeq(wfs)
                THEN (IF Len(wfs.items) = 0
                      THEN <<addDiagnostic(wfs,
                               <<"workflows must have at least one entry">>)>>
                      ELSE <<>>)
                     \o Flatten([i \in DOMAIN wfs.items |->
                                   validateWorkflow(wfs.items[i])])
                ELSE <<addDiagnostic(wfs, <<"workflows must be an array">>)>>
        ELSE <<>>)

\* mutant: a document with syntax errors is not validated structurally
validate_SyntaxOnly(d) ==
    LET yamlDoc == parseDocument(d)
    IN [i \in DOMAIN yamlDoc.errors |->
          [range |-> yamlDoc.errors[i].pos, message |-> yamlDoc.errors[i].message,
           severity |-> "Error"]]
       \o (IF isMap(yamlDoc.contents) /\ yamlDoc.errors = <<>>
           THEN validateArazzo(yamlDoc.contents)
           ELSE <<>>)

\* validate(document): the diagnostics it publishes for a yaml document
validate(d) ==
    LET yamlDoc == parseDocument(d)
    IN [i \in DOMAIN yamlDoc.errors |->
          [range |-> yamlDoc.errors[i].pos, message |-> yamlDoc.errors[i].message,
           severity |-> "Error"]]
       \o (IF isMap(yamlDoc.contents) THEN validateArazzo(yamlDoc.contents) ELSE <<>>)

\* what diagnosticCollection holds for the document after validate(document)
published(d, old) == IF d.lang # "yaml" THEN old ELSE validate(d)

(***************************************************************************)
(* The outline (YamlDocumentSymbolProvider).  A position is the offset it  *)
(* is made from; a Range is its pair of positions.                         *)
(***************************************************************************)
\* the pairs of a map in document order
PairKeys(node) ==
    LET ks == DOMAIN node.items
    IN [i \in 1..Cardinality(ks) |->
          CHOOSE k \in ks :
              Cardinality({x \in ks : KeyIndex(x) < KeyIndex(k)}) = i - 1]

\* vscode.Range.contains
Contains(range, inner) == range[1] <= inner[1] /\ inner[2] <= range[2]

\* contextKey of a parseNode call that is given none
NoContext == "undefined"

\* vscode.DocumentSymbol
DocumentSymbol(name, detail, kind, range, selectionRange, children) ==
    [name |-> name, detail |-> detail, kind |-> kind, range |-> range,
     selectionRange |-> selectionRange, children |-> children]

\* lines 366-394: name, detail and kind of the symbol of a sequence item
ItemLabel(item, index, contextKey) ==
    LET byIndex == [name |-> Digit(index), detail |-> "", kind |-> "Array"]
        Labelled(idKey, kind, detailKey) ==
            IF has(item, idKey) /\ isScalar(get(item, idKey))
            THEN [name |-> get(item, idKey).value,
                  detail |-> IF /\ detailKey # NoContext
                                /\ has(item, detailKey)
                                /\ isScalar(get(item, detailKey))
                             THEN get(item, detailKey).value
                             ELSE "",
                  kind |-> kind]
            ELSE byIndex
    IN IF ~isMap(item) THEN byIndex
       ELSE CASE contextKey = "workflows" -> Labelled("workflowId", "Class", "summary")
              [] contextKey = "steps" -> Labelled("stepId", "Function", "description")
              [] contextKey = "sourceDescriptions" ->
                   Labelled("name", "Interface", NoContext)
              [] OTHER -> byIndex

\* lines 350-399: the symbol of item `index` (from 0) of a sequence
ItemSymbol(item, index, contextKey, children) ==
    LET rangeStart == OrElse(item.range[1], 0)
        end == OrElse(item.range[3], OrElse(item.range[2], 0))
        rangeEnd == IF end < rangeStart THEN rangeStart ELSE end
        range == <<rangeStart, rangeEnd>>
        label == ItemLabel(item, index, contextKey)
    IN DocumentSymbol(label.name, label.detail, label.kind, range, range, children)

\* lines 285-347: the symbol of the pair of key `key` in map `node` (a Pair
\* of the parser has no range, so the range is made from the key's and the
\* value's)
PairSymbol(node, key, children) ==
    LET keyRange == node.keys[key]
        valRange == get(node, key).range
        rangeStart == OrElse(keyRange[1], 0)
        end == OrElse(valRange[3], OrElse(valRange[2], OrElse(keyRange[2], 0)))
        rangeEnd == IF end < rangeStart THEN rangeStart ELSE end
        selectionStart == OrElse(keyRange[1], rangeStart)
        selectionEnd == OrElse(keyRange[2], rangeStart)
        range == <<rangeStart, rangeEnd>>
        selectionRange == <<selectionStart, selectionEnd>>
        kind == CASE key = "workflows" -> "Class"
                  [] key = "steps" -> "Method"
                  [] key = "sourceDescriptions" -> "Module"
                  [] OTHER -> "Field"
    IN DocumentSymbol(key, "", kind, range,
                      IF Contains(range, selectionRange) THEN selectionRange
                      ELSE range,
                      children)

\* lines 277-419
RECURSIVE parseNode(_, _)
parseNode(node, contextKey) ==
    IF isMap(node)
    THEN LET pairs == PairKeys(node)
         IN [i \in DOMAIN pairs |->
               PairSymbol(node, pairs[i], parseNode(get(node, pairs[i]), pairs[i]))]
    ELSE IF isSeq(node)
    THEN [i \in DOMAIN node.items |->
            ItemSymbol(node.items[i], i - 1, contextKey,
                       parseNode(node.items[i], NoContext))]
    ELSE <<>>

\* the DocumentSymbol constructor throws when the name is falsy
RECURSIVE Throws(_)
Throws(tree) ==
    \E i \in DOMAIN tree : tree[i].name = "" \/ Throws(tree[i].children)

\* mutant: the symbols of a request are added to those of the request before
NewSymbols_Kept(previous) == previous

\* line 281: every request builds its symbols in a new array
NewSymbols(previous) == <<>>

\* lines 256-275: a throw inside the try block is caught and [] is returned
provideDocumentSymbols(d) ==
    LET yamlDoc == parseDocument(d)
        tree == parseNode(yamlDoc.contents, NoContext)
    IN IF Throws(tree) THEN <<>> ELSE tree

(***************************************************************************)
(* Documents and the edits a change event can carry.                       *)
(***************************************************************************)
Key(k) == [key |-> k]
Idx(i) == [idx |-> i]
IsKey(e) == "key" \in DOMAIN e

WithKey(m, k, v) ==
    MapNode([x \in (DOMAIN m.items) \cup {k} |-> IF x = k THEN v ELSE m.items[x]])
WithoutKey(m, k) ==
    MapNode([x \in (DOMAIN m.items) \ {k} |-> m.items[x]])

Child(n, e) == IF IsKey(e) THEN n.items[e.key] ELSE n.items[e.idx]

RECURSIVE NodeAt(_, _)
NodeAt(n, path) ==
    IF path = <<>> THEN n ELSE NodeAt(Child(n, Head(path)), Tail(path))

RECURSIVE ReplaceAt(_, _, _)
ReplaceAt(n, path, new) ==
    IF path = <<>> THEN new
    ELSE LET e == Head(path)
             c == ReplaceAt(Child(n, e), Tail(path), new)
         IN IF IsKey(e)
            THEN WithKey(n, e.key, c)
            ELSE SeqNode([n.items EXCEPT ![e.idx] = c])

RECURSIVE Paths(_)
Paths(n) ==
    {<<>>} \cup
    CASE n.kind = "map" ->
           UNION {{<<Key(k)>> \o p : p \in Paths(n.items[k])} : k \in DOMAIN n.items}
      [] n.kind = "seq" ->
           UNION {{<<Idx(i)>> \o p : p \in Paths(n.items[i])} : i \in DOMAIN n.items}
      [] OTHER -> {}

\* the keys the editor offers in a map, by the map's place in the document
KeysAt(path) ==
    CASE path = <<>> -> {"arazzo", "info", "sourceDescriptions", "workflows"}
      [] path = <<Key("info")>> -> {"title", "version"}
      [] Len(path) = 2 /\ path[1] = Key("sourceDescriptions") -> {"name", "url", "type"}
      [] Len(path) = 2 /\ path[1] = Key("workflows") ->
           {"workflowId", "steps", "summary", "outputs"}
      [] Len(path) = 4 /\ path[3] = Key("steps") ->
           {"stepId", "operationId", "operationPath", "workflowId", "description"}
      [] OTHER -> {}

\* the runtime expression $steps.<id>.outputs.<name>
StepOutput(id, name) == <<"$steps", id, "outputs", name>>

\* the values a key can be given
ValuesFor(k) ==
    CASE k = "info" -> {EmptyMap, Scalar("v")}
      [] k \in {"sourceDescriptions", "workflows", "steps"} ->
           {SeqNode(<<>>), Scalar("v")}
      [] k = "type" -> {Scalar("openapi"), Scalar("arazzo"), Scalar("other")}
      [] k \in {"workflowId", "stepId"} -> {Scalar("v"), Scalar("")}
      [] k = "summary" -> {Scalar("a summary")}
      [] k = "description" -> {Scalar("a description")}
      [] k = "outputs" ->
           {MapNode([x \in {"available"} |-> Scalar(StepOutput(id, "out"))]) :
              id \in {"v", "ghost"}}
      [] OTHER -> {Scalar("v")}

MapOf(keys) == MapNode([k \in keys |-> Scalar("v")])

\* the document of the extension's test "Valid Arazzo file should have no errors"
MinimalRoot ==
    MapNode([k \in {"arazzo", "info", "sourceDescriptions", "workflows"} |->
        CASE k = "arazzo" -> Scalar("1.0.1")
          [] k = "info" -> MapOf({"title", "version"})
          [] k = "sourceDescriptions" ->
               SeqNode(<<WithKey(MapOf({"name", "url"}), "type", Scalar("openapi"))>>)
          [] k = "workflows" ->
               SeqNode(<<WithKey(MapOf({"workflowId"}), "steps",
                                 SeqNode(<<MapOf({"stepId", "operationId"})>>))>>)])

SyntaxError == [pos |-> <<7, 8>>, message |-> <<"Implicit keys need to be on a single line">>]
IndentError == [pos |-> <<21, 22>>, message |-> <<"All mapping items must start at the same column">>]

(***************************************************************************)
(* Spec: a document is opened and edited; every change event runs          *)
(* validate and publishes its diagnostics.                                 *)
(***************************************************************************)
ValInit ==
    /\ \E lang \in {"yaml", "plaintext"} :
          doc = [lang |-> lang, errors |-> <<>>, root |-> MinimalRoot]
    /\ nChanges = 0
    /\ diagnostics = published(doc, <<>>)
    /\ symbols = <<>>
    /\ symbolsAt = -1

\* the yaml test document, opened and not edited
ValIdle ==
    /\ doc = [lang |-> "yaml", errors |-> <<>>, root |-> MinimalRoot]
    /\ nChanges = 0
    /\ diagnostics = published(doc, <<>>)
    /\ symbols = <<>>
    /\ symbolsAt = -1

\* onDidChangeTextDocument: the document has become d
Changed(d) ==
    /\ nChanges < MaxChanges
    /\ nChanges' = nChanges + 1
    /\ doc' = d
    /\ diagnostics' = published(d, diagnostics)
    /\ UNCHANGED <<outlineVars, graphVars, previewVars, registryVars, collectionVars, uiVars>>

RemoveKey ==
    \E p \in Paths(doc.root) :
        /\ isMap(NodeAt(doc.root, p))
        /\ \E k \in DOMAIN NodeAt(doc.root, p).items :
              Changed([doc EXCEPT !.root =
                         ReplaceAt(doc.root, p, WithoutKey(NodeAt(doc.root, p), k))])

AddKey ==
    \E p \in Paths(doc.root) :
        /\ isMap(NodeAt(doc.root, p))
        /\ \E k \in KeysAt(p) \ DOMAIN NodeAt(doc.root, p).items :
              \E v \in ValuesFor(k) :
                Changed([doc EXCEPT !.root =
                           ReplaceAt(doc.root, p, WithKey(NodeAt(doc.root, p), k, v))])

AppendItem ==
    \E p \in Paths(doc.root) :
        /\ isSeq(NodeAt(doc.root, p))
        /\ Len(NodeAt(doc.root, p).items) < MaxItems
        /\ \E item \in {EmptyMap, Scalar("v")} :
              Changed([doc EXCEPT !.root =
                         ReplaceAt(doc.root, p,
                                   SeqNode(Append(NodeAt(doc.root, p).items, item)))])

ReplaceRoot ==
    \E r \in {Scalar("v"), EmptyMap} :
        /\ r # doc.root
        /\ Changed([doc EXCEPT !.root = r])

BreakSyntax ==
    \E e \in {SyntaxError, IndentError} \ Range(doc.errors) :
        Changed([doc EXCEPT !.errors = Append(@, e)])

FixSyntax ==
    /\ doc.errors # <<>>
    /\ Changed([doc EXCEPT !.errors = <<>>])

\* the host asks the symbol provider for the document's outline
ProvideSymbols ==
    /\ doc.lang = "yaml"
    /\ symbols' = NewSymbols(symbols) \o provideDocumentSymbols(doc)
    /\ symbolsAt' = nChanges
    /\ UNCHANGED <<valVars, graphVars, previewVars, registryVars, collectionVars, uiVars>>

ValNext ==
    \/ RemoveKey
    \/ AddKey
    \/ AppendItem
    \/ ReplaceRoot
    \/ BreakSyntax
    \/ FixSyntax


(***************************************************************************)
(* The flowchart generator (webview-ui/src/lib/mermaid-converter.ts).      *)
(* Identifiers are sequences of characters; the flowchart is kept as its   *)
(* node statements and its edge statements, in the order they are pushed.  *)
(***************************************************************************)
WordChars ==
    {"a", "b", "c", "d", "e", "f", "g", "h", "i", "j", "k", "l", "m",
     "n", "o", "p", "q", "r", "s", "t", "u", "v", "w", "x", "y", "z",
     "A", "B", "C", "D", "E", "F", "G", "H", "I", "J", "K", "L", "M",
     "N", "O", "P", "Q", "R", "S", "T", "U", "V", "W", "X", "Y", "Z",
     "0", "1", "2", "3", "4", "5", "6", "7", "8", "9", "_"}

\* id.replace(/[^a-zA-Z0-9_]/g, '_')
sanitizeId(id) == [i \in DOMAIN id |-> IF id[i] \in WordChars THEN id[i] ELSE "_"]

INPUT == <<"I", "N", "P", "U", "T">>
OUTPUT == <<"O", "U", "T", "P", "U", "T">>
END_ERROR == <<"E", "N", "D", "_", "E", "R", "R", "O", "R">>

\* an absent (or empty) string field: falsy
NoId == <<>>

isReusableObject(a) == "reference" \in DOMAIN a

\* a.type of an action object
TypeOf(a) == IF "type" \in DOMAIN a THEN a.type ELSE "none"
\* a.stepId of an action object
StepIdOf(a) == IF "stepId" \in DOMAIN a THEN a.stepId ELSE NoId

Node(id, kind) == [id |-> id, kind |-> kind]
Edge(from, to, kind) == [from |-> from, to |-> to, kind |-> kind]
\* an edge statement with a label: from -->|"label"| to
LabelledEdge(from, to, kind, label) ==
    [from |-> from, to |-> to, kind |-> kind, label |-> label]

\* an edge statement whose target is written with its shape and class:
\* from -.->|"label"| to["text"]:::class
DeclaringEdge(from, to, kind, label, node) ==
    [from |-> from, to |-> to, kind |-> kind, label |-> label, node |-> node]

\* label.trim()
RECURSIVE TrimLeft(_)
TrimLeft(label) ==
    IF label # <<>> /\ Head(label) = " " THEN TrimLeft(Tail(label)) ELSE label
RECURSIVE TrimRight(_)
TrimRight(label) ==
    IF label # <<>> /\ label[Len(label)] = " "
    THEN TrimRight(SubSeq(label, 1, Len(label) - 1))
    ELSE label

\* lines 263-268: the replacements of single characters
RECURSIVE Escaped(_)
Escaped(label) ==
    IF label = <<>> THEN <<>>
    ELSE LET c == Head(label)
         IN (CASE c = "\"" -> <<"'">>
               [] c \in {"$", "<", ">"} -> <<>>
               [] c = "[" -> <<"(">>
               [] c = "]" -> <<")">>
               [] c \in {":", ";"} -> <<" ">>
               [] OTHER -> <<c>>)
            \o Escaped(Tail(label))

\* lines 269-272: `||` and `&&` are replaced from the left, then the `|` and
\* the newlines that remain
RECURSIVE Replaced(_)
Replaced(label) ==
    IF label = <<>> THEN <<>>
    ELSE LET c == Head(label)
             two == Len(label) >= 2 /\ label[2] = c
         IN IF c = "|" /\ two
            THEN <<" ", "O", "R", " ">> \o Replaced(Tail(Tail(label)))
            ELSE IF c = "&" /\ two
            THEN <<" ", "A", "N", "D", " ">> \o Replaced(Tail(Tail(label)))
            ELSE (CASE c = "|" -> <<"/">>
                    [] c = "\n" -> <<" ">>
                    [] OTHER -> <<c>>)
                 \o Replaced(Tail(label))

\* lines 260-274
sanitizeLabel(label) == TrimRight(TrimLeft(Replaced(Escaped(label))))

\* a.name || fallback
NameOr(a, fallback) ==
    IF "name" \in DOMAIN a /\ a.name # <<>> THEN a.name ELSE fallback

\* lines 35-60: INPUT, one node per step in declared order, OUTPUT if the
\* workflow declares outputs
NodeStatements(wf) ==
    <<Node(INPUT, "input")>>
    \o [i \in DOMAIN wf.steps |-> Node(sanitizeId(wf.steps[i].stepId), "step")]
    \o (IF wf.outputs THEN <<Node(OUTPUT, "output")>> ELSE <<>>)

\* lines 66-68
InputEdge(wf) ==
    IF Len(wf.steps) > 0
    THEN <<Edge(INPUT, sanitizeId(wf.steps[1].stepId), "sequential")>>
    ELSE <<>>

\* mutant: only an end action counts as an explicit next
hasExplicitNext_EndOnly(step) ==
    \E k \in DOMAIN step.onSuccess :
        /\ ~isReusableObject(step.onSuccess[k])
        /\ TypeOf(step.onSuccess[k]) = "end"

\* mutant: a goto counts only when it names a step
hasExplicitNext_StepOnly(step) ==
    \E k \in DOMAIN step.onSuccess :
        /\ ~isReusableObject(step.onSuccess[k])
        /\ \/ TypeOf(step.onSuccess[k]) = "end"
           \/ TypeOf(step.onSuccess[k]) = "goto" /\ StepIdOf(step.onSuccess[k]) # NoId

\* lines 76-80
hasExplicitNext(step) ==
    \E k \in DOMAIN step.onSuccess :
        /\ ~isReusableObject(step.onSuccess[k])
        /\ TypeOf(step.onSuccess[k]) \in {"goto", "end"}

\* mutant: the default edge leaves the next step instead of the current one
DefaultEdge_FromNext(wf, i) ==
    IF i + 1 \in DOMAIN wf.steps /\ ~hasExplicitNext(wf.steps[i])
    THEN <<Edge(sanitizeId(wf.steps[i + 1].stepId),
                sanitizeId(wf.steps[i + 1].stepId), "sequential")>>
    ELSE <<>>

\* lines 81-83
DefaultEdge(wf, i) ==
    IF i + 1 \in DOMAIN wf.steps /\ ~hasExplicitNext(wf.steps[i])
    THEN <<Edge(sanitizeId(wf.steps[i].stepId),
                sanitizeId(wf.steps[i + 1].stepId), "sequential")>>
    ELSE <<>>

\* lines 88-95: the edge of one onSuccess action
SuccessEdge(step, a) ==
    IF isReusableObject(a) THEN <<>>
    ELSE IF TypeOf(a) = "goto" /\ StepIdOf(a) # NoId
    THEN <<LabelledEdge(sanitizeId(step.stepId), sanitizeId(a.stepId), "success",
                        sanitizeLabel(NameOr(a, <<"s", "u", "c", "c", "e", "s", "s">>)))>>
    ELSE IF TypeOf(a) = "end"
    THEN <<LabelledEdge(sanitizeId(step.stepId), OUTPUT, "success", <<"e", "n", "d">>)>>
    ELSE <<>>

\* mutant: a failure end leads to the output node
FailureEdge_EndAtOutput(step, a) ==
    IF isReusableObject(a) THEN <<>>
    ELSE IF TypeOf(a) = "goto" /\ StepIdOf(a) # NoId
    THEN <<LabelledEdge(sanitizeId(step.stepId), sanitizeId(a.stepId), "failure",
                        sanitizeLabel(NameOr(a, <<"f", "a", "i", "l", "u", "r", "e">>)))>>
    ELSE IF TypeOf(a) = "end"
    THEN <<LabelledEdge(sanitizeId(step.stepId), OUTPUT, "failure", <<"e", "n", "d">>)>>
    ELSE <<>>

\* lines 102-109: the edge of one onFailure action
FailureEdge(step, a) ==
    IF isReusableObject(a) THEN <<>>
    ELSE IF TypeOf(a) = "goto" /\ StepIdOf(a) # NoId
    THEN <<LabelledEdge(sanitizeId(step.stepId), sanitizeId(a.stepId), "failure",
                        sanitizeLabel(NameOr(a, <<"f", "a", "i", "l", "u", "r", "e">>)))>>
    ELSE IF TypeOf(a) = "end"
    THEN <<DeclaringEdge(sanitizeId(step.stepId), END_ERROR, "failure", <<"e", "n", "d">>,
                         Node(END_ERROR, "error"))>>
    ELSE <<>>

\* lines 71-112: the edges pushed by iteration i of the step loop
StepEdges(wf, i, hide) ==
    LET step == wf.steps[i]
    IN DefaultEdge(wf, i)
       \o Flatten([k \in DOMAIN step.onSuccess |-> SuccessEdge(step, step.onSuccess[k])])
       \o (IF ~hide
           THEN Flatten([k \in DOMAIN step.onFailure |->
                           FailureEdge(step, step.onFailure[k])])
           ELSE <<>>)

\* mutant: a goto on the last step counts as an explicit end
OutputEdge_GotoOrEnd(wf) ==
    IF wf.outputs /\ Len(wf.steps) > 0
    THEN LET lastStep == wf.steps[Len(wf.steps)]
         IN IF ~hasExplicitNext(lastStep)
            THEN <<Edge(sanitizeId(lastStep.stepId), OUTPUT, "sequential")>>
            ELSE <<>>
    ELSE <<>>

\* lines 115-124
OutputEdge(wf) ==
    IF wf.outputs /\ Len(wf.steps) > 0
    THEN LET lastStep == wf.steps[Len(wf.steps)]
             hasExplicitEnd ==
                 \E k \in DOMAIN lastStep.onSuccess :
                     /\ ~isReusableObject(lastStep.onSuccess[k])
                     /\ TypeOf(lastStep.onSuccess[k]) = "end"
         IN IF ~hasExplicitEnd
            THEN <<Edge(sanitizeId(lastStep.stepId), OUTPUT, "sequential")>>
            ELSE <<>>
    ELSE <<>>

EdgeStatements(wf, hide) ==
    InputEdge(wf)
    \o Flatten([i \in DOMAIN wf.steps |-> StepEdges(wf, i, hide)])
    \o OutputEdge(wf)

\* the node statements of the chart followed by the nodes that its edge
\* statements declare, in the order of the lines
Declarations(ns, es) ==
    ns \o Flatten([k \in DOMAIN es |->
                     IF "node" \in DOMAIN es[k] THEN <<es[k].node>> ELSE <<>>])

\* the nodes of the chart: a node is its id, and a later declaration of an id
\* that is already there adds no node
RECURSIVE Distinct(_)
Distinct(ds) ==
    IF ds = <<>> THEN <<>>
    ELSE LET front == SubSeq(ds, 1, Len(ds) - 1)
             last == ds[Len(ds)]
         IN IF \E k \in DOMAIN front : front[k].id = last.id
            THEN Distinct(front)
            ELSE Append(Distinct(front), last)

NodeList(ns, es) == Distinct(Declarations(ns, es))

(***************************************************************************)
(* SpecGraph: the webview's workflow grows by one step or one action at a  *)
(* time and the flowchart is regenerated from it.                          *)
(***************************************************************************)
\* the stepId of the i-th step: s1, s-2, s3, s-4, ...
StepIdAt(i) == IF i % 2 = 0 THEN <<"s", "-", Digit(i)>> ELSE <<"s", Digit(i)>>

\* a stepId that no step has
Dangling == <<"x", "-", "9">>

Targets == {StepIdAt(1), StepIdAt(2), Dangling}

Reusable == [reference |-> "$components.successActions.done"]
GotoWorkflow == [type |-> "goto", workflowId |-> <<"w">>]
EndAction == [type |-> "end"]
Goto(t) == [type |-> "goto", stepId |-> t]
\* a goto with a name and a criterion
NamedGoto(t) ==
    [type |-> "goto", stepId |-> t, name |-> <<"o", "k", ":", "|", "$", "|">>,
     criteria |-> <<[condition |-> "$statusCode == 200"]>>]
Retry(t) == [type |-> "retry", stepId |-> t]

SuccessActions ==
    {Reusable, GotoWorkflow, EndAction, Goto(StepIdAt(1)), NamedGoto(StepIdAt(2)),
     Goto(Dangling)}
FailureActions ==
    {Reusable, EndAction} \cup {Goto(t) : t \in Targets} \cup {Retry(t) : t \in Targets}

RECURSIVE SumLen(_)
SumLen(ss) == IF ss = <<>> THEN 0 ELSE Len(Head(ss)) + SumLen(Tail(ss))

NumActions(wf) ==
    SumLen([i \in DOMAIN wf.steps |-> wf.steps[i].onSuccess \o wf.steps[i].onFailure])

GraphInit ==
    /\ workflow = [steps |-> <<>>, outputs |-> FALSE]
    /\ hideErrorFlows = FALSE
    /\ nodes = NodeStatements(workflow)
    /\ edges = EdgeStatements(workflow, hideErrorFlows)
    /\ rebuilt = FALSE

\* mutant: the lines of a call are added to those of the call before
NewLines_Kept(previous) == previous

\* line 23: every call pushes its statements to a new array
NewLines(previous) == <<>>

\* the flowchart is generated from the new workflow and options
Regenerate(wf, hide) ==
    /\ workflow' = wf
    /\ hideErrorFlows' = hide
    /\ nodes' = NewLines(nodes) \o NodeStatements(wf)
    /\ edges' = NewLines(edges) \o EdgeStatements(wf, hide)
    /\ rebuilt' = (wf = workflow /\ hide = hideErrorFlows)
    /\ UNCHANGED <<valVars, outlineVars, previewVars, registryVars, collectionVars, uiVars>>

AddStep ==
    /\ Len(workflow.steps) < MaxSteps
    /\ Regenerate([workflow EXCEPT !.steps =
                      Append(@, [stepId |-> StepIdAt(Len(workflow.steps) + 1),
                                 onSuccess |-> <<>>, onFailure |-> <<>>])],
                  hideErrorFlows)

AddSuccessAction ==
    /\ NumActions(workflow) < MaxActions
    /\ \E i \in DOMAIN workflow.steps : \E a \in SuccessActions :
          Regenerate([workflow EXCEPT !.steps[i].onSuccess = Append(@, a)],
                     hideErrorFlows)

AddFailureAction ==
    /\ NumActions(workflow) < MaxActions
    /\ \E i \in DOMAIN workflow.steps : \E a \in FailureActions :
          Regenerate([workflow EXCEPT !.steps[i].onFailure = Append(@, a)],
                     hideErrorFlows)

DeclareOutputs ==
    /\ ~workflow.outputs
    /\ Regenerate([workflow EXCEPT !.outputs = TRUE], hideErrorFlows)

ToggleErrorFlows == Regenerate(workflow, ~hideErrorFlows)

\* the view is rendered again and the flowchart is generated from the
\* unchanged workflow
Rebuild == Regenerate(workflow, hideErrorFlows)

GraphNext ==
    \/ AddStep
    \/ AddSuccessAction
    \/ AddFailureAction
    \/ DeclareOutputs
    \/ ToggleErrorFlows

(***************************************************************************)
(* SpecPreview: the live preview of one document.  The text is kept as     *)
(* its version (the number of changes it has received) and the kind of     *)
(* its parsed root; a spec or a chart is named by the version of the text  *)
(* it was made from, 0 being App's emptySpec and the empty svg.            *)
(***************************************************************************)
PreviewInit ==
    /\ docVersion = 1
    /\ docIsMap = TRUE
    /\ panelOpen = FALSE
    /\ readyPending = FALSE
    /\ awaiting = 0
    /\ channel = <<>>
    /\ webSpec = 0
    /\ viewMode = "documentation"
    /\ rendering = {}
    /\ svgContent = 0
    /\ panels = <<>>
    /\ created = {}
    /\ disposed = {}
    /\ updating = {}
    /\ posted = {}
    /\ latePosts = {}
    /\ thrown = {}

Message(type, spec) == [type |-> type, spec |-> spec]

\* createOrShow for a document without a panel: the panel is registered and
\* its webview loads App, which posts 'ready'
OpenPreview ==
    /\ ~panelOpen
    /\ panelOpen' = TRUE
    /\ readyPending' = TRUE
    /\ UNCHANGED <<docVersion, docIsMap, awaiting, channel, webSpec, viewMode,
                   rendering, svgContent>>
    /\ UNCHANGED <<valVars, outlineVars, graphVars, registryVars, collectionVars, uiVars>>

\* onDidReceiveMessage, case 'ready': _updateSpec() is called and suspends at
\* its await
HandleReady ==
    /\ readyPending
    /\ readyPending' = FALSE
    /\ awaiting' = awaiting + 1
    /\ UNCHANGED <<docVersion, docIsMap, panelOpen, channel, webSpec, viewMode,
                   rendering, svgContent>>
    /\ UNCHANGED <<valVars, outlineVars, graphVars, registryVars, collectionVars, uiVars>>

\* onDidChangeTextDocument for the yaml document: ArazzoPreviewPanel.update
\* calls _updateSpec() of the document's panel, if it has one
ChangeDocument ==
    /\ docVersion <= MaxChanges
    /\ docVersion' = docVersion + 1
    /\ docIsMap' \in BOOLEAN
    /\ awaiting' = IF panelOpen THEN awaiting + 1 ELSE awaiting
    /\ UNCHANGED <<panelOpen, readyPending, channel, webSpec, viewMode, rendering,
                   svgContent>>
    /\ UNCHANGED <<valVars, outlineVars, graphVars, registryVars, collectionVars, uiVars>>

\* _updateSpec after its await: the document's current text is parsed and,
\* if its root is a map, posted as an 'update' message
ResumeUpdateSpec ==
    /\ awaiting > 0
    /\ awaiting' = awaiting - 1
    /\ channel' = IF docIsMap
                  THEN Append(channel, Message("update", docVersion))
                  ELSE channel
    /\ UNCHANGED <<docVersion, docIsMap, panelOpen, readyPending, webSpec, viewMode,
                   rendering, svgContent>>
    /\ UNCHANGED <<valVars, outlineVars, graphVars, registryVars, collectionVars, uiVars>>

\* the host posts the 'update-flowchart' message App handles, with the
\* document's current spec
PostFlowchart ==
    /\ panelOpen /\ ~readyPending /\ docIsMap
    /\ Message("update-flowchart", docVersion) \notin Range(channel)
    /\ ~(viewMode = "flowchart" /\ webSpec = docVersion)
    /\ channel' = Append(channel, Message("update-flowchart", docVersion))
    /\ UNCHANGED <<docVersion, docIsMap, panelOpen, readyPending, awaiting, webSpec,
                   viewMode, rendering, svgContent>>
    /\ UNCHANGED <<valVars, outlineVars, graphVars, registryVars, collectionVars, uiVars>>

\* App.handleMessage, 'update': setSpec, setViewMode('documentation'); the
\* documentation view is given no charts, so FlowchartView's MermaidDiagram
\* is unmounted
DeliverUpdate ==
    /\ channel # <<>>
    /\ Head(channel).type = "update"
    /\ channel' = Tail(channel)
    /\ webSpec' = Head(channel).spec
    /\ viewMode' = "documentation"
    /\ rendering' = {}
    /\ svgContent' = 0
    /\ UNCHANGED <<docVersion, docIsMap, panelOpen, readyPending, awaiting>>
    /\ UNCHANGED <<valVars, outlineVars, graphVars, registryVars, collectionVars, uiVars>>

\* App.handleMessage, 'update-flowchart': setSpec, setViewMode('flowchart');
\* FlowchartView's chart is recomputed and MermaidDiagram's effect calls
\* renderChart when the diagram is mounted or its chart has changed
DeliverFlowchart ==
    /\ channel # <<>>
    /\ Head(channel).type = "update-flowchart"
    /\ channel' = Tail(channel)
    /\ webSpec' = Head(channel).spec
    /\ viewMode' = "flowchart"
    /\ IF viewMode = "documentation"
       THEN rendering' = {webSpec'} /\ svgContent' = 0
       ELSE /\ rendering' = IF webSpec' # webSpec
                            THEN rendering \cup {webSpec'}
                            ELSE rendering
            /\ UNCHANGED svgContent
    /\ UNCHANGED <<docVersion, docIsMap, panelOpen, readyPending, awaiting>>
    /\ UNCHANGED <<valVars, outlineVars, graphVars, registryVars, collectionVars, uiVars>>

\* renderChart after `await mermaid.render(id, chart)`: setSvgContent(svg)
RenderDone ==
    \E v \in rendering :
        /\ rendering' = rendering \ {v}
        /\ svgContent' = v
        /\ UNCHANGED <<docVersion, docIsMap, panelOpen, readyPending, awaiting,
                       channel, webSpec, viewMode>>
        /\ UNCHANGED <<valVars, outlineVars, graphVars, registryVars, collectionVars, uiVars>>

\* renderChart's catch: setError, setSvgContent('')
RenderFailed ==
    \E v \in rendering :
        /\ rendering' = rendering \ {v}
        /\ svgContent' = 0
        /\ UNCHANGED <<docVersion, docIsMap, panelOpen, readyPending, awaiting,
                       channel, webSpec, viewMode>>
        /\ UNCHANGED <<valVars, outlineVars, graphVars, registryVars, collectionVars, uiVars>>

PreviewNext ==
    \/ OpenPreview
    \/ HandleReady
    \/ ChangeDocument
    \/ ResumeUpdateSpec
    \/ PostFlowchart
    \/ DeliverUpdate
    \/ DeliverFlowchart
    \/ RenderDone
    \/ RenderFailed

\* no document is open, no diagnostics are set
CollectionInit ==
    /\ documents = <<>>
    /\ diagnosticCollection = <<>>

\* an action of the form: name 0 and stepId "" stand for undefined
Action(name, type, stepId) == [name |-> name, type |-> type, stepId |-> stepId]

\* lines 38-40: the initial state of ActionFormEditor, over an empty list
FormInit ==
    /\ actions = <<>>
    /\ showAddForm = FALSE
    /\ editingIndex = -1
    /\ formData = Action(0, "goto", "")
    /\ namesTyped = 0

\* a workflow without inputs: no properties, nothing required
InputsInit == inputs = [properties |-> <<>>, required |-> <<>>]

\* lines 123-125: the initial state of ExpressionInput, over an empty value
ExprInit ==
    /\ value = <<>>
    /\ cursor = 0
    /\ focused = FALSE
    /\ showDropdown = FALSE
    /\ selectedIndex = 0
    /\ filter = <<>>

UiInit == FormInit /\ InputsInit /\ ExprInit

Init == ValInit /\ GraphInit /\ PreviewInit /\ CollectionInit /\ UiInit
Next == ValNext
Spec == Init /\ [][Next]_vars

InitGraph == ValIdle /\ GraphInit /\ PreviewInit /\ CollectionInit /\ UiInit
SpecGraph == InitGraph /\ [][GraphNext]_vars

SpecPreview == InitGraph /\ [][PreviewNext]_vars

\* the extension host and the webview run every handler that is due: a
\* received message is handled, an awaited promise that has settled resumes
\* its function
Scheduling ==
    /\ WF_vars(HandleReady)
    /\ WF_vars(ResumeUpdateSpec)
    /\ WF_vars(DeliverUpdate)
    /\ WF_vars(DeliverFlowchart)
    /\ WF_vars(RenderDone \/ RenderFailed)

SpecPreviewLive == SpecPreview /\ Scheduling

(***************************************************************************)
(* SpecPanels: the registry of preview panels.  Previews of several        *)
(* documents are opened and closed and the documents change.               *)
(***************************************************************************)
Uri(scheme, path) == [scheme |-> scheme, path |-> path]
Uris == {Uri("file", "/a.yaml"), Uri("file", "/b.yaml"), Uri("untitled", "/a.yaml")}

\* resourceUri.toString()
UriString(uri) == <<uri.scheme, "://", uri.path>>

\* panels.has(key)
HasPanel(key) == key \in DOMAIN panels

\* panels.set(key, panel)
SetPanel(registry, key, panel) ==
    [k \in (DOMAIN registry) \cup {key} |-> IF k = key THEN panel ELSE registry[k]]

\* mutant: dispose leaves the registry as it is
DeletePanel_Kept(registry, key) == registry

\* panels.delete(key)
DeletePanel(registry, key) == [k \in (DOMAIN registry) \ {key} |-> registry[k]]

\* the panels that are created and not disposed
Live == created \ disposed

\* createOrShow(extensionUri, resourceUri): the panel of the key is revealed,
\* or a panel is created and registered under the key
CreateOrShow ==
    \E uri \in Uris :
        LET key == UriString(uri)
            panel == [id |-> Cardinality(created) + 1, resourceUri |-> uri]
        IN /\ IF HasPanel(key)
              THEN UNCHANGED <<panels, created>>
              ELSE /\ Cardinality(created) < MaxPanels
                   /\ created' = created \cup {panel}
                   /\ panels' = SetPanel(panels, key, panel)
           /\ UNCHANGED <<disposed, updating, posted, latePosts, thrown>>
           /\ UNCHANGED <<valVars, outlineVars, graphVars, previewVars, collectionVars, uiVars>>

\* the panel is closed: onDidDispose calls dispose(), which deletes the
\* entry of the panel's resourceUri
Dispose ==
    \E panel \in Live :
        /\ disposed' = disposed \cup {panel}
        /\ panels' = DeletePanel(panels, UriString(panel.resourceUri))
        /\ UNCHANGED <<created, updating, posted, latePosts, thrown>>
        /\ UNCHANGED <<valVars, outlineVars, graphVars, previewVars, collectionVars, uiVars>>

\* onDidChangeTextDocument of a yaml document: update(uri) calls _updateSpec
\* of the panel registered for the document, if there is one
UpdatePanel ==
    \E uri \in Uris :
        /\ HasPanel(UriString(uri))
        /\ panels[UriString(uri)] \notin updating
        /\ updating' = updating \cup {panels[UriString(uri)]}
        /\ UNCHANGED <<panels, created, disposed, posted, latePosts, thrown>>
        /\ UNCHANGED <<valVars, outlineVars, graphVars, previewVars, collectionVars, uiVars>>

\* onDidReceiveMessage, case 'ready': the listener calls _updateSpec of its
\* panel; dispose() has disposed of the listener of a disposed panel
ReceiveReady ==
    \E panel \in Live \ updating :
        /\ updating' = updating \cup {panel}
        /\ UNCHANGED <<panels, created, disposed, posted, latePosts, thrown>>
        /\ UNCHANGED <<valVars, outlineVars, graphVars, previewVars, collectionVars, uiVars>>

\* mutant: the webview of a disposed panel is handed out like any other
Webview_Unchecked(panel, gone) == "webview"

\* this._panel.webview: the panel's getter throws once the panel is disposed
Webview(panel, gone) == IF panel \in gone THEN "throws" ELSE "webview"

\* _updateSpec after its await, on a panel that may have been disposed: the
\* document is parsed and, if its root is a map, sendSpec posts it to the
\* panel's webview; an error thrown on the way is caught and logged
UpdateResumed ==
    \E panel \in updating : \E rootIsMap \in BOOLEAN :
        /\ updating' = updating \ {panel}
        /\ IF ~rootIsMap
           THEN UNCHANGED <<posted, latePosts, thrown>>
           ELSE IF Webview(panel, disposed) = "throws"
           THEN thrown' = thrown \cup {panel} /\ UNCHANGED <<posted, latePosts>>
           ELSE /\ posted' = posted \cup {panel}
                /\ latePosts' = latePosts \cup ({panel} \cap disposed)
                /\ UNCHANGED thrown
        /\ UNCHANGED <<panels, created, disposed>>
        /\ UNCHANGED <<valVars, outlineVars, graphVars, previewVars, collectionVars, uiVars>>

PanelsNext ==
    \/ CreateOrShow
    \/ Dispose
    \/ UpdatePanel
    \/ ReceiveReady
    \/ UpdateResumed

SpecPanels == InitGraph /\ [][PanelsNext]_vars

(***************************************************************************)
(* SpecIds: the steps of the workflow are named by the author; the         *)
(* stepIds of a workflow are pairwise different.                           *)
(***************************************************************************)
StepIdPool ==
    {<<"s", "1">>, <<"s", "-", "2">>, <<"s", "_", "2">>, <<"s", ".", "2">>,
     <<"I", "N", "P", "U", "T">>, <<"E", "N", "D", "-", "E", "R", "R", "O", "R">>}

AddNamedStep ==
    /\ Len(workflow.steps) < MaxSteps
    /\ \E id \in StepIdPool \ {workflow.steps[i].stepId : i \in DOMAIN workflow.steps} :
          Regenerate([workflow EXCEPT !.steps =
                        Append(@, [stepId |-> id, onSuccess |-> <<>>,
                                   onFailure |-> <<>>])],
                     hideErrorFlows)

IdsNext ==
    \/ AddNamedStep
    \/ DeclareOutputs

SpecIds == InitGraph /\ [][IdsNext]_vars

(***************************************************************************)
(* SpecActions: ActionFormEditor over the actions of a step; the parent    *)
(* stores the list that onChange hands to it and passes it back as the     *)
(* actions prop.                                                           *)
(***************************************************************************)
\* an array element that was never assigned
Hole == Action(0, "undefined", "")

\* newActions[index] = item on a copy of the array (index from 0): an index
\* past the end extends the array and leaves holes
AssignAt(list, index, item) ==
    [k \in 1..(IF index + 1 > Len(list) THEN index + 1 ELSE Len(list)) |->
        IF k = index + 1 THEN item
        ELSE IF k <= Len(list) THEN list[k] ELSE Hole]

\* newActions.splice(index, 1) on a copy of the array (index from 0)
SpliceOne(list, index) ==
    [k \in 1..(Len(list) - 1) |-> IF k <= index THEN list[k] ELSE list[k + 1]]

FormUnchanged == UNCHANGED <<valVars, outlineVars, graphVars, previewVars, registryVars,
                             collectionVars, inputsVars, exprVars>>

\* lines 44-48; the button is rendered while the form is closed
handleAdd ==
    /\ ~showAddForm
    /\ Len(actions) < MaxActions
    /\ formData' = Action(0, "goto", "")
    /\ editingIndex' = -1
    /\ showAddForm' = TRUE
    /\ UNCHANGED <<actions, namesTyped>>
    /\ FormUnchanged

\* lines 50-54; every item of ActionList has its edit button
handleEdit ==
    \E index \in 0..(Len(actions) - 1) :
        /\ formData' = actions[index + 1]
        /\ editingIndex' = index
        /\ showAddForm' = TRUE
        /\ UNCHANGED <<actions, namesTyped>>
        /\ FormUnchanged

\* lines 56-60; every item of ActionList has its delete button
handleDelete ==
    \E index \in 0..(Len(actions) - 1) :
        /\ actions' = SpliceOne(actions, index)
        /\ UNCHANGED <<showAddForm, editingIndex, formData, namesTyped>>
        /\ FormUnchanged

\* lines 62-72; the button is disabled for a goto without a target
handleSave ==
    /\ showAddForm
    /\ ~(formData.type = "goto" /\ formData.stepId = "")
    /\ actions' = IF editingIndex # -1
                  THEN AssignAt(actions, editingIndex, formData)
                  ELSE Append(actions, formData)
    /\ showAddForm' = FALSE
    /\ editingIndex' = -1
    /\ UNCHANGED <<formData, namesTyped>>
    /\ FormUnchanged

\* lines 74-77
handleCancel ==
    /\ showAddForm
    /\ showAddForm' = FALSE
    /\ editingIndex' = -1
    /\ UNCHANGED <<actions, formData, namesTyped>>
    /\ FormUnchanged

\* the name input of the add form: the user types a name no action has
TypeName ==
    /\ showAddForm /\ editingIndex = -1 /\ formData.name = 0
    /\ namesTyped <= MaxActions
    /\ namesTyped' = namesTyped + 1
    /\ formData' = [formData EXCEPT !.name = namesTyped + 1]
    /\ UNCHANGED <<actions, showAddForm, editingIndex>>
    /\ FormUnchanged

\* the type buttons: the type is set and the target is cleared
ChooseType ==
    /\ showAddForm
    /\ \E type \in {"goto", "end"} \ {formData.type} :
          formData' = [formData EXCEPT !.type = type, !.stepId = ""]
    /\ UNCHANGED <<actions, showAddForm, editingIndex, namesTyped>>
    /\ FormUnchanged

\* the target input of a goto
ChooseStep ==
    /\ showAddForm /\ formData.type = "goto" /\ formData.stepId = ""
    /\ formData' = [formData EXCEPT !.stepId = "s1"]
    /\ UNCHANGED <<actions, showAddForm, editingIndex, namesTyped>>
    /\ FormUnchanged

ActionsNext ==
    \/ handleAdd
    \/ handleEdit
    \/ handleDelete
    \/ handleSave
    \/ handleCancel
    \/ TypeName
    \/ ChooseType
    \/ ChooseStep

SpecActions == InitGraph /\ [][ActionsNext]_vars

(***************************************************************************)
(* SpecInputs: WorkflowInputsEditor in list view; the parent stores the    *)
(* inputs that onChange hands to it and passes them back as the prop.      *)
(***************************************************************************)
\* the key `input${n}`
InputKey(n) == <<"input", n>>
\* a name the user types in place of a generated key
TypedKey == <<"id", 0>>

SchemaProperty(type, description) == [type |-> type, description |-> description]

\* obj with obj[key] = item
WithProperty(obj, key, item) ==
    [k \in (DOMAIN obj) \cup {key} |-> IF k = key THEN item ELSE obj[k]]
\* obj after delete obj[key]
WithoutProperty(obj, key) == [k \in (DOMAIN obj) \ {key} |-> obj[k]]

\* lines 25-43
PropertyChanged(in, key, newKey, newValue) ==
    LET kept == IF key # newKey THEN WithoutProperty(in.properties, key)
                ELSE in.properties
        newRequired ==
            IF key # newKey /\ key \in Range(in.required)
            THEN [i \in DOMAIN in.required |->
                    IF in.required[i] = key THEN newKey ELSE in.required[i]]
            ELSE in.required
    IN [in EXCEPT !.properties = WithProperty(kept, newKey, newValue),
                  !.required = newRequired]

\* lines 45-53
PropertyDeleted(in, key) ==
    [in EXCEPT !.properties = WithoutProperty(in.properties, key),
               !.required = SelectSeq(in.required, LAMBDA k : k # key)]

\* lines 55-64
PropertyAdded(in) ==
    LET newKey == InputKey(Cardinality(DOMAIN in.properties) + 1)
    IN [in EXCEPT !.properties =
           WithProperty(in.properties, newKey, SchemaProperty("string", "New input"))]

InputsUnchanged == UNCHANGED <<valVars, outlineVars, graphVars, previewVars, registryVars,
                               collectionVars, formVars, exprVars>>

\* the Add Input button
handleAddProperty ==
    /\ Cardinality(DOMAIN inputs.properties) <= MaxItems
    /\ inputs' = PropertyAdded(inputs)
    /\ InputsUnchanged

\* the name input of a property: the user types another name
RenameProperty ==
    \E key \in DOMAIN inputs.properties :
      \E newKey \in {TypedKey, InputKey(MaxItems)} \ {key} :
        /\ Len(PropertyChanged(inputs, key, newKey, inputs.properties[key]).required)
              <= MaxItems
        /\ inputs' = PropertyChanged(inputs, key, newKey, inputs.properties[key])
        /\ InputsUnchanged

\* the description input of a property
DescribeProperty ==
    \E key \in DOMAIN inputs.properties :
        /\ inputs.properties[key].description # "edited"
        /\ inputs' = PropertyChanged(inputs, key, key,
                                     [inputs.properties[key] EXCEPT !.description = "edited"])
        /\ InputsUnchanged

\* the required checkbox of a property
ToggleRequired ==
    \E key \in DOMAIN inputs.properties :
        /\ inputs' = [inputs EXCEPT !.required =
                         IF key \in Range(@)
                         THEN SelectSeq(@, LAMBDA k : k # key)
                         ELSE Append(@, key)]
        /\ Len(inputs'.required) <= MaxItems
        /\ InputsUnchanged

\* the delete button of a property
handleDeleteProperty ==
    \E key \in DOMAIN inputs.properties :
        /\ inputs' = PropertyDeleted(inputs, key)
        /\ InputsUnchanged

InputsNext ==
    \/ handleAddProperty
    \/ RenameProperty
    \/ DescribeProperty
    \/ ToggleRequired
    \/ handleDeleteProperty

SpecInputs == InitGraph /\ [][InputsNext]_vars

(***************************************************************************)
(* SpecExpr: ExpressionInput with the default suggestions; the parent      *)
(* stores the value that onChange hands to it and passes it back as the    *)
(* value prop.                                                             *)
(***************************************************************************)
\* lines 84-95
DEFAULT_SUGGESTIONS == <<
    [expression |->
        <<"$", "s", "t", "a", "t", "u", "s", "C", "o", "d", "e">>,
     label |->
        <<"S", "t", "a", "t", "u", "s", " ", "C", "o", "d", "e">>,
     description |->
        <<"H", "T", "T", "P", " ", "r", "e", "s", "p", "o", "n", "s", "e", " ",
          "s", "t", "a", "t", "u", "s", " ", "c", "o", "d", "e">>,
     type |-> "context"],
    [expression |->
        <<"$", "r", "e", "s", "p", "o", "n", "s", "e", ".", "b", "o", "d", "y">>,
     label |->
        <<"R", "e", "s", "p", "o", "n", "s", "e", " ", "B", "o", "d", "y">>,
     description |->
        <<"F", "u", "l", "l", " ", "r", "e", "s", "p", "o", "n", "s", "e", " ",
          "b", "o", "d", "y">>,
     type |-> "response"],
    [expression |->
        <<"$", "r", "e", "s", "p", "o", "n", "s", "e", ".", "h", "e", "a", "d",
          "e", "r", ".", "c", "o", "n", "t", "e", "n", "t", "-", "t", "y", "p",
          "e">>,
     label |->
        <<"C", "o", "n", "t", "e", "n", "t", "-", "T", "y", "p", "e">>,
     description |->
        <<"R", "e", "s", "p", "o", "n", "s", "e", " ", "c", "o", "n", "t", "e",
          "n", "t", " ", "t", "y", "p", "e", " ", "h", "e", "a", "d", "e", "r">>,
     type |-> "response"],
    [expression |->
        <<"$", "u", "r", "l">>,
     label |->
        <<"R", "e", "q", "u", "e", "s", "t", " ", "U", "R", "L">>,
     description |->
        <<"T", "h", "e", " ", "r", "e", "q", "u", "e", "s", "t", " ", "U", "R",
          "L">>,
     type |-> "context"],
    [expression |->
        <<"$", "m", "e", "t", "h", "o", "d">>,
     label |->
        <<"H", "T", "T", "P", " ", "M", "e", "t", "h", "o", "d">>,
     description |->
        <<"T", "h", "e", " ", "H", "T", "T", "P", " ", "m", "e", "t", "h", "o",
          "d", " ", "u", "s", "e", "d">>,
     type |-> "context"],
    [expression |->
        <<"$", "i", "n", "p", "u", "t", "s", ".">>,
     label |->
        <<"W", "o", "r", "k", "f", "l", "o", "w", " ", "I", "n", "p", "u", "t">>,
     description |->
        <<"A", "c", "c", "e", "s", "s", " ", "w", "o", "r", "k", "f", "l", "o",
          "w", " ", "i", "n", "p", "u", "t", " ", "v", "a", "l", "u", "e", "s">>,
     type |-> "input"],
    [expression |->
        <<"$", "s", "t", "e", "p", "s", ".">>,
     label |->
        <<"S", "t", "e", "p", " ", "O", "u", "t", "p", "u", "t">>,
     description |->
        <<"A", "c", "c", "e", "s", "s", " ", "o", "u", "t", "p", "u", "t", "s",
          " ", "f", "r", "o", "m", " ", "p", "r", "e", "v", "i", "o", "u", "s",
          " ", "s", "t", "e", "p", "s">>,
     type |-> "output"]
>>

Uppercase == <<"A", "B", "C", "D", "E", "F", "G", "H", "I", "J", "K", "L", "M", "N", "O", "P", "Q", "R", "S", "T", "U", "V", "W", "X", "Y", "Z">>
Lowercase == <<"a", "b", "c", "d", "e", "f", "g", "h", "i", "j", "k", "l", "m", "n", "o", "p", "q", "r", "s", "t", "u", "v", "w", "x", "y", "z">>

\* String.prototype.toLowerCase
toLowerCase(text) ==
    [i \in DOMAIN text |->
        IF \E k \in DOMAIN Uppercase : Uppercase[k] = text[i]
        THEN Lowercase[CHOOSE k \in DOMAIN Uppercase : Uppercase[k] = text[i]]
        ELSE text[i]]

\* String.prototype.includes
includes(text, part) ==
    \E i \in 0..(Len(text) - Len(part)) : SubSeq(text, i + 1, i + Len(part)) = part

\* String.prototype.lastIndexOf for one character: from 0, -1 when absent
lastIndexOf(text, c) ==
    IF \E i \in DOMAIN text : text[i] = c
    THEN (CHOOSE i \in DOMAIN text : text[i] = c /\ \A j \in DOMAIN text : text[j] = c => j <= i) - 1
    ELSE -1

\* text.substring(from) and text.substring(0, to), positions from 0
substringFrom(text, from) == SubSeq(text, from + 1, Len(text))
substringTo(text, to) == SubSeq(text, 1, to)

\* lines 130-138
filteredSuggestions(suggestions, f) ==
    IF f = <<>> THEN suggestions
    ELSE LET lowerFilter == toLowerCase(f)
         IN SelectSeq(suggestions, LAMBDA sg :
                \/ includes(toLowerCase(sg.expression), lowerFilter)
                \/ includes(toLowerCase(sg.label), lowerFilter)
                \/ includes(toLowerCase(sg.description), lowerFilter))

Filtered == filteredSuggestions(DEFAULT_SUGGESTIONS, filter)

ExprUnchanged == UNCHANGED <<valVars, outlineVars, graphVars, previewVars, registryVars,
                             collectionVars, formVars, inputsVars>>

\* lines 141-156: the user types a character at the cursor
handleChange ==
    \E c \in {"$", "u", "s"} :
        LET newValue == substringTo(value, cursor) \o <<c>> \o substringFrom(value, cursor)
            cursorPosition == cursor + 1
            textBeforeCursor == substringTo(newValue, cursorPosition)
        IN /\ focused
           /\ Len(value) < MaxLen
           /\ value' = newValue
           /\ cursor' = cursorPosition
           /\ IF includes(textBeforeCursor, <<"$">>)
              THEN /\ filter' = substringFrom(textBeforeCursor,
                                               lastIndexOf(textBeforeCursor, "$"))
                   /\ showDropdown' = TRUE
                   /\ selectedIndex' = 0
              ELSE /\ showDropdown' = FALSE
                   /\ UNCHANGED <<filter, selectedIndex>>
           /\ UNCHANGED focused
           /\ ExprUnchanged

\* lines 159-160: the keys are handled while the dropdown shows suggestions
KeysHandled == focused /\ showDropdown /\ Len(Filtered) > 0

\* lines 163-166
ArrowDown ==
    /\ KeysHandled
    /\ selectedIndex' = IF selectedIndex + 1 < Len(Filtered) - 1
                        THEN selectedIndex + 1 ELSE Len(Filtered) - 1
    /\ UNCHANGED <<value, cursor, focused, showDropdown, filter>>
    /\ ExprUnchanged

\* lines 167-170
ArrowUp ==
    /\ KeysHandled
    /\ selectedIndex' = IF selectedIndex - 1 > 0 THEN selectedIndex - 1 ELSE 0
    /\ UNCHANGED <<value, cursor, focused, showDropdown, filter>>
    /\ ExprUnchanged

\* lines 183-204: the text from the last $ before the cursor up to the
\* cursor is replaced by the suggestion's expression (explored for values
\* of at most MaxLen characters, so that values stay bounded)
selectSuggestion(suggestion) ==
    LET textBeforeCursor == substringTo(value, cursor)
        textAfterCursor == substringFrom(value, cursor)
        lastDollar == lastIndexOf(textBeforeCursor, "$")
    IN /\ Len(value) <= MaxLen
       /\ value' = IF lastDollar = -1
                   THEN value \o suggestion.expression
                   ELSE substringTo(value, lastDollar) \o suggestion.expression
                        \o textAfterCursor
       /\ cursor' = Len(value')
       /\ showDropdown' = FALSE
       /\ focused' = TRUE
       /\ UNCHANGED <<selectedIndex, filter>>
       /\ ExprUnchanged

\* lines 171-175: Enter or Tab; filteredSuggestions[selectedIndex] is
\* undefined for an index past the end, and selectSuggestion throws when it
\* reads its expression
EnterOrTab ==
    /\ KeysHandled
    /\ IF selectedIndex + 1 \in DOMAIN Filtered
       THEN selectSuggestion(Filtered[selectedIndex + 1])
       ELSE UNCHANGED vars

\* lines 176-178
Escape ==
    /\ KeysHandled
    /\ showDropdown' = FALSE
    /\ UNCHANGED <<value, cursor, focused, selectedIndex, filter>>
    /\ ExprUnchanged

\* onMouseDown of an item of the dropdown
ClickSuggestion ==
    /\ showDropdown
    /\ \E k \in DOMAIN Filtered : selectSuggestion(Filtered[k])

\* lines 207-218: a mouse press outside the input and the dropdown, which
\* takes the focus from the input; dropdownRef is set while the dropdown is
\* rendered (line 349)
handleClickOutside ==
    /\ focused
    /\ focused' = FALSE
    /\ showDropdown' = IF showDropdown /\ Len(Filtered) > 0 THEN FALSE ELSE showDropdown
    /\ UNCHANGED <<value, cursor, selectedIndex, filter>>
    /\ ExprUnchanged

\* lines 289-299: the input gets the focus with its caret at the start of
\* the text, where it was left, or at the end
onFocus ==
    \E cursorPosition \in {0, cursor, Len(value)} :
        LET textBeforeCursor == substringTo(value, cursorPosition)
            lastDollar == lastIndexOf(textBeforeCursor, "$")
        IN /\ ~focused
           /\ focused' = TRUE
           /\ cursor' = cursorPosition
           /\ IF includes(value, <<"$">>) /\ lastDollar # -1
              THEN /\ filter' = substringFrom(textBeforeCursor, lastDollar)
                   /\ showDropdown' = TRUE
              ELSE UNCHANGED <<filter, showDropdown>>
           /\ UNCHANGED <<value, selectedIndex>>
           /\ ExprUnchanged

ExprNext ==
    \/ handleChange
    \/ ArrowDown
    \/ ArrowUp
    \/ EnterOrTab
    \/ Escape
    \/ ClickSuggestion
    \/ handleClickOutside
    \/ onFocus

SpecExpr == InitGraph /\ [][ExprNext]_vars

(***************************************************************************)
(* SpecDocs: several text documents are opened, changed and closed; the    *)
(* open and change handlers run validate on the document of the event.     *)
(***************************************************************************)
DocUris == {Uri("file", "/a.yaml"), Uri("file", "/b.yaml")}

\* the texts a document can hold
Texts ==
    {[errors |-> e, root |-> r] :
        e \in {<<>>, <<SyntaxError>>},
        r \in {MinimalRoot, WithoutKey(MinimalRoot, "info"), Scalar("v")}}

TextDocument(lang, text) == [lang |-> lang, errors |-> text.errors, root |-> text.root]

\* diagnosticCollection.get(uri)
GetDiagnostics(collection, uri) ==
    IF uri \in DOMAIN collection THEN collection[uri] ELSE <<>>

\* mutant: the diagnostics of a validation are added to those set before
NewDiagnostics_Kept(previous) == previous

\* line 37: every validation pushes to a new array
NewDiagnostics(previous) == <<>>

\* lines 33-53: validate(document) with the collection; a document that is
\* not yaml leaves it as it is, a yaml document has its entry set
Validate(collection, uri, d) ==
    IF d.lang # "yaml" THEN collection
    ELSE LET ds == NewDiagnostics(GetDiagnostics(collection, uri)) \o validate(d)
         IN [u \in (DOMAIN collection) \cup {uri} |->
               IF u = uri THEN ds ELSE collection[u]]

\* onDidOpenTextDocument
OpenTextDocument ==
    \E uri \in DocUris \ DOMAIN documents :
      \E lang \in {"yaml", "plaintext"} : \E text \in Texts :
        LET d == TextDocument(lang, text)
        IN /\ documents' = [u \in (DOMAIN documents) \cup {uri} |->
                               IF u = uri THEN d ELSE documents[u]]
           /\ diagnosticCollection' = Validate(diagnosticCollection, uri, d)
           /\ UNCHANGED <<valVars, outlineVars, graphVars, previewVars, registryVars,
                       uiVars>>

\* onDidChangeTextDocument
ChangeTextDocument ==
    \E uri \in DOMAIN documents : \E text \in Texts :
        LET d == TextDocument(documents[uri].lang, text)
        IN /\ documents' = [documents EXCEPT ![uri] = d]
           /\ diagnosticCollection' = Validate(diagnosticCollection, uri, d)
           /\ UNCHANGED <<valVars, outlineVars, graphVars, previewVars, registryVars,
                       uiVars>>

\* the document is closed: no handler is registered for it
CloseTextDocument ==
    \E uri \in DOMAIN documents :
        /\ documents' = [u \in (DOMAIN documents) \ {uri} |-> documents[u]]
        /\ UNCHANGED diagnosticCollection
        /\ UNCHANGED <<valVars, outlineVars, graphVars, previewVars, registryVars,
                       uiVars>>

DocsNext ==
    \/ OpenTextDocument
    \/ ChangeTextDocument
    \/ CloseTextDocument

SpecDocs == InitGraph /\ [][DocsNext]_vars

(***************************************************************************)
(* SpecBuild: the two derived artifacts.  The outline is built in the      *)
(* extension host from the document, the flowchart in the webview from the *)
(* workflow; a behaviour exercises one of the two builders, the other      *)
(* staying in its initial state.                                           *)
(***************************************************************************)
OutlineIdle == nChanges = 0 /\ symbolsAt = -1
GraphIdle == workflow = [steps |-> <<>>, outputs |-> FALSE] /\ ~rebuilt
\* the outline the host holds is not older than the document's last change
OutlineFresh == symbolsAt \in {-1, nChanges}

BuildNext ==
    \/ GraphIdle /\ OutlineFresh /\ AddKey
    \/ GraphIdle /\ OutlineFresh /\ AppendItem
    \/ GraphIdle /\ ProvideSymbols
    \/ OutlineIdle /\ AddStep
    \/ OutlineIdle /\ AddSuccessAction
    \/ OutlineIdle /\ DeclareOutputs
    \/ OutlineIdle /\ Rebuild

SpecBuild == InitGraph /\ [][BuildNext]_vars

(***************************************************************************)
(* Properties of the validator (specification Spec).                       *)
(***************************************************************************)
Validated == doc.lang = "yaml" /\ nChanges > 0
ParsedRoot == parseDocument(doc).contents
RootFields == {"arazzo", "info", "sourceDescriptions", "workflows"}
OperationRefs == {"operationId", "operationPath", "workflowId"}

\* the steps the document holds: map items of a workflow's steps sequence
StepPaths ==
    IF ~isMap(doc.root) THEN {}
    ELSE {p \in Paths(doc.root) :
            /\ Len(p) = 4
            /\ p[1] = Key("workflows")
            /\ p[3] = Key("steps")
            /\ isMap(NodeAt(doc.root, p))}
StepAt(p) == NodeAt(ParsedRoot, p)
StepRange(p) == <<StepAt(p).range[1], StepAt(p).range[3]>>
NoStepId == {p \in StepPaths : ~has(StepAt(p), "stepId")}
NoOperation == {p \in StepPaths : OperationRefs \cap DOMAIN StepAt(p).items = {}}
ManyOperations ==
    {p \in StepPaths : Cardinality(OperationRefs \cap DOMAIN StepAt(p).items) > 1}

HasExactly(n, keys) == isMap(n) /\ DOMAIN n.items = keys
OneItem(n) == isSeq(n) /\ Len(n.items) = 1

\* root fields present, info with title and version, one source description
\* with name and url, one workflow with workflowId and one step with stepId
\* and operationId
MinimalWellFormed(r) ==
    /\ HasExactly(r, RootFields)
    /\ HasExactly(get(r, "info"), {"title", "version"})
    /\ OneItem(get(r, "sourceDescriptions"))
    /\ LET sd == get(r, "sourceDescriptions").items[1]
       IN /\ isMap(sd)
          /\ {"name", "url"} \subseteq DOMAIN sd.items
          /\ DOMAIN sd.items \subseteq {"name", "url", "type"}
          /\ has(sd, "type") => get(sd, "type").value \in {"openapi", "arazzo"}
    /\ OneItem(get(r, "workflows"))
    /\ HasExactly(get(r, "workflows").items[1], {"workflowId", "steps"})
    /\ OneItem(get(get(r, "workflows").items[1], "steps"))
    /\ HasExactly(get(get(r, "workflows").items[1], "steps").items[1],
                  {"stepId", "operationId"})

\* C1: a minimal well-formed yaml document without syntax errors has no
\* diagnostics published.
C1_MinimalDocumentHasNoDiagnostics ==
    (doc.lang = "yaml" /\ doc.errors = <<>> /\ MinimalWellFormed(doc.root))
        => diagnostics = <<>>

C1_Witness ==
    /\ Validated /\ doc.errors = <<>> /\ MinimalWellFormed(doc.root)
    /\ diagnostics = <<>>

\* C2: for a root map, each of the four root fields has exactly one
\* "Missing required field" diagnostic when it is absent and none when it
\* is present, whatever the other fields are.
C2_RootRequiredFields ==
    (doc.lang = "yaml" /\ isMap(doc.root)) =>
        \A f \in RootFields :
            Count(diagnostics, LAMBDA d : d.message = MissingMsg(f))
                = IF has(doc.root, f) THEN 0 ELSE 1

C2_Witness ==
    /\ Validated /\ isMap(doc.root)
    /\ DOMAIN doc.root.items = {"arazzo", "workflows"}
    /\ Count(diagnostics, LAMBDA d : d.message = MissingMsg("info")) = 1
    /\ Count(diagnostics, LAMBDA d : d.message = MissingMsg("sourceDescriptions")) = 1

\* C3: every step without stepId has exactly one diagnostic "Missing
\* required field: stepId", of severity error, at the step's range; a step
\* with stepId has none, and there is no such diagnostic anywhere else.
C3_StepIdRequired ==
    doc.lang = "yaml" =>
        /\ \A p \in StepPaths :
              Count(diagnostics, LAMBDA d : /\ d.message = MissingMsg("stepId")
                                           /\ d.severity = "Error"
                                           /\ d.range = StepRange(p))
                  = IF p \in NoStepId THEN 1 ELSE 0
        /\ Count(diagnostics, LAMBDA d : d.message = MissingMsg("stepId"))
              = Cardinality(NoStepId)

C3_Witness ==
    /\ Validated
    /\ NoStepId # {} /\ StepPaths \ NoStepId # {}
    /\ \E i \in DOMAIN diagnostics : diagnostics[i].message = MissingMsg("stepId")

\* a diagnostic about the step's operation reference: one at the step's
\* range that is not a missing-field diagnostic
OperationDiagnostic(d, p) ==
    d.range = StepRange(p) /\ d.message[1] # "Missing required field: "

\* C4: every step with none of operationId, operationPath, workflowId has
\* exactly one operation diagnostic, an error at the step's range whose
\* message names the three alternatives; a step with one of them has none.
C4_StepOperationRequired ==
    doc.lang = "yaml" =>
        \A p \in StepPaths :
            /\ Count(diagnostics, LAMBDA d : OperationDiagnostic(d, p))
                  = IF p \in NoOperation THEN 1 ELSE 0
            /\ \A i \in DOMAIN diagnostics :
                  OperationDiagnostic(diagnostics[i], p) =>
                      /\ OperationRefs \subseteq Range(diagnostics[i].message)
                      /\ diagnostics[i].severity = "Error"

C4_Witness ==
    /\ Validated
    /\ NoOperation # {} /\ StepPaths \ NoOperation # {}
    /\ \E i \in DOMAIN diagnostics : diagnostics[i].message = StepOperationMsg

\* C5 (as claimed): every step that sets more than one of operationId,
\* operationPath, workflowId has a diagnostic at its range, other than the
\* one reported for a step that sets none.
C5_ManyOperationsReported ==
    doc.lang = "yaml" =>
        \A p \in ManyOperations :
            \E i \in DOMAIN diagnostics :
                /\ OperationDiagnostic(diagnostics[i], p)
                /\ diagnostics[i].message # StepOperationMsg

\* the workflows of the document that are maps, by their index
WorkflowIndexes ==
    IF isMap(doc.root) /\ has(doc.root, "workflows") /\ isSeq(get(doc.root, "workflows"))
    THEN {i \in DOMAIN get(doc.root, "workflows").items :
            isMap(get(doc.root, "workflows").items[i])}
    ELSE {}
WorkflowAt(i) == get(ParsedRoot, "workflows").items[i]

\* the stepIds declared in workflow i
DeclaredStepIds(i) ==
    LET wf == WorkflowAt(i)
    IN IF has(wf, "steps") /\ isSeq(get(wf, "steps"))
       THEN {get(st, "stepId").value :
               st \in {x \in Range(get(wf, "steps").items) :
                         isMap(x) /\ has(x, "stepId") /\ isScalar(get(x, "stepId"))}}
       ELSE {}

\* the workflows whose output `available` is a $steps expression
WithStepOutput ==
    {i \in WorkflowIndexes :
        /\ has(WorkflowAt(i), "outputs")
        /\ isMap(get(WorkflowAt(i), "outputs"))
        /\ has(get(WorkflowAt(i), "outputs"), "available")}
OutputExpr(i) == get(get(WorkflowAt(i), "outputs"), "available")

\* a diagnostic of the given severity at the expression of workflow i
ExpressionDiagnostic(i, severity) ==
    \E k \in DOMAIN diagnostics :
        /\ diagnostics[k].range = <<OutputExpr(i).range[1], OutputExpr(i).range[3]>>
        /\ diagnostics[k].severity = severity

\* C12 (as claimed): $steps.<id>.outputs.<name> is reported as an error when
\* the workflow in scope has no step <id>, and as a warning, not an error,
\* when step <id> exists and does not declare output <name>.
C12_StepOutputResolved ==
    doc.lang = "yaml" =>
        \A i \in WithStepOutput :
            IF OutputExpr(i).value[2] \in DeclaredStepIds(i)
            THEN ExpressionDiagnostic(i, "Warning") /\ ~ExpressionDiagnostic(i, "Error")
            ELSE ExpressionDiagnostic(i, "Error")

NodeRange(n) == <<n.range[1], n.range[3]>>
DiagnosticsAt(range) == SelectSeq(diagnostics, LAMBDA d : d.range = range)
DiagnosticsWithin(n) ==
    SelectSeq(diagnostics, LAMBDA d : n.range[1] <= d.range[1] /\ d.range[2] <= n.range[3])

\* the source descriptions of the document that are maps
SourceDescriptions ==
    IF /\ isMap(doc.root) /\ has(doc.root, "sourceDescriptions")
       /\ isSeq(get(doc.root, "sourceDescriptions"))
    THEN {sd \in Range(get(ParsedRoot, "sourceDescriptions").items) : isMap(sd)}
    ELSE {}

\* C15: validation does not short-circuit: the diagnostics of each source
\* description, workflow and step are those of one visit of that entity,
\* whatever the diagnostics of the root, of the parser and of the other
\* entities are, and no diagnostic is published twice.
C15_NoShortCircuit ==
    doc.lang = "yaml" =>
        /\ \A p \in StepPaths : DiagnosticsAt(StepRange(p)) = validateStep(StepAt(p))
        /\ \A i \in WorkflowIndexes :
              DiagnosticsAt(NodeRange(WorkflowAt(i)))
                  = checkRequired(WorkflowAt(i), <<"workflowId", "steps">>)
        /\ \A sd \in SourceDescriptions :
              DiagnosticsWithin(sd) = validateSourceDescription(sd)
        /\ \A i \in DOMAIN diagnostics : \A j \in DOMAIN diagnostics :
              diagnostics[i] = diagnostics[j] => i = j

\* the root and two steps of one workflow have diagnostics at once
C15_Witness ==
    /\ Validated
    /\ isMap(doc.root)
    /\ RootFields \ DOMAIN doc.root.items # {}
    /\ \E p \in StepPaths : \E q \in StepPaths :
          /\ p[2] = q[2] /\ p[4].idx < q[4].idx
          /\ DiagnosticsAt(StepRange(p)) # <<>>
          /\ Len(DiagnosticsAt(StepRange(q))) = 2

\* C16: every error of the parser is published once, as an error
\* diagnostic with the parser's message at the parser's position, and the
\* structural diagnostics of the parsed root map are published with them:
\* they are the diagnostics the document has without its syntax errors.
C16_SyntaxErrorsPublished ==
    doc.lang = "yaml" =>
        /\ \A i \in DOMAIN doc.errors :
              /\ diagnostics[i] = [range |-> doc.errors[i].pos,
                                   message |-> doc.errors[i].message,
                                   severity |-> "Error"]
              /\ \A j \in DOMAIN diagnostics : diagnostics[j] = diagnostics[i] => j = i
        /\ isMap(doc.root) =>
              SubSeq(diagnostics, Len(doc.errors) + 1, Len(diagnostics))
                  = validate([doc EXCEPT !.errors = <<>>])

C16_Witness ==
    /\ Validated /\ isMap(doc.root)
    /\ Len(doc.errors) = 2
    /\ Len(diagnostics) > 2
    /\ diagnostics[3].message[1] = "Missing required field: "


\* the diagnostics with the given message
WithMessage(message) == SelectSeq(diagnostics, LAMBDA d : d.message = message)
EmptyMsg(name) == <<name \o " must have at least one entry">>
ArrayMsg(name) == <<name \o " must be an array">>

\* the collection `name` of map n: one "at least one entry" at its range
\* when it is an empty sequence, one "must be an array" at its range when it
\* is no sequence, none of either at its range otherwise
CollectionReported(n, name) ==
    LET c == get(n, name)
        at == DiagnosticsAt(NodeRange(c))
        empties == SelectSeq(at, LAMBDA d : d.message = EmptyMsg(name))
        arrays == SelectSeq(at, LAMBDA d : d.message = ArrayMsg(name))
    IN /\ Len(empties) = (IF isSeq(c) /\ Len(c.items) = 0 THEN 1 ELSE 0)
       /\ Len(arrays) = (IF ~isSeq(c) THEN 1 ELSE 0)

\* the maps of the document that hold the collection `name`
Holders(name) ==
    IF ~isMap(doc.root) THEN {}
    ELSE IF name = "steps"
    THEN {WorkflowAt(i) : i \in {j \in WorkflowIndexes : has(WorkflowAt(j), "steps")}}
    ELSE IF has(doc.root, name) THEN {ParsedRoot} ELSE {}

\* C22: after validation, each of sourceDescriptions, workflows and a
\* workflow's steps that is present carries exactly one "must have at least
\* one entry" diagnostic at its range when it is an empty sequence, exactly
\* one "must be an array" diagnostic when it is not a sequence, and neither
\* when it is a sequence with entries; no such diagnostic is published
\* anywhere else.
C22_EmptyCollectionsReported ==
    Validated =>
        \A name \in {"sourceDescriptions", "workflows", "steps"} :
            /\ \A n \in Holders(name) : CollectionReported(n, name)
            /\ Len(WithMessage(EmptyMsg(name))) =
                  Cardinality({n \in Holders(name) :
                                 isSeq(get(n, name)) /\ Len(get(n, name).items) = 0})
            /\ Len(WithMessage(ArrayMsg(name))) =
                  Cardinality({n \in Holders(name) : ~isSeq(get(n, name))})

\* a workflow's steps sequence is empty, the root's workflows sequence has
\* entries: one diagnostic for steps, none for workflows
C22_Witness ==
    /\ Validated
    /\ \E n \in Holders("steps") :
          /\ isSeq(get(n, "steps")) /\ Len(get(n, "steps").items) = 0
          /\ Len(DiagnosticsAt(NodeRange(get(n, "steps")))) = 1
    /\ Len(WithMessage(EmptyMsg("steps"))) = 1
    /\ Len(WithMessage(EmptyMsg("workflows"))) = 0
    /\ Len(WithMessage(ArrayMsg("steps"))) = 0

\* sourceDescriptions holds a scalar: one "must be an array", no "at least
\* one entry"
C22_WitnessScalar ==
    /\ Validated
    /\ Holders("sourceDescriptions") # {}
    /\ isScalar(get(ParsedRoot, "sourceDescriptions"))
    /\ Len(WithMessage(ArrayMsg("sourceDescriptions"))) = 1
    /\ Len(WithMessage(EmptyMsg("sourceDescriptions"))) = 0

(***************************************************************************)
(* Properties of the flowchart generator (specification SpecGraph).        *)
(***************************************************************************)
Steps == workflow.steps
NSteps == Len(workflow.steps)
NodeIdOf(i) == sanitizeId(Steps[i].stepId)
StepIds == {Steps[i].stepId : i \in DOMAIN Steps}
NoActions == \A i \in DOMAIN Steps : Steps[i].onSuccess = <<>> /\ Steps[i].onFailure = <<>>
HasEdge(from, to, kind) ==
    \E k \in DOMAIN edges :
        edges[k].from = from /\ edges[k].to = to /\ edges[k].kind = kind

\* the actions of a list that are action objects of the given types
ActionsOf(list, types) ==
    {list[k] : k \in {x \in DOMAIN list : /\ ~isReusableObject(list[x])
                                          /\ TypeOf(list[x]) \in types}}

\* input -> step 1, step i -> step i+1, step N -> output
SequentialEdges ==
    {Edge(INPUT, NodeIdOf(1), "sequential"), Edge(NodeIdOf(NSteps), OUTPUT, "sequential")}
    \cup {Edge(NodeIdOf(i), NodeIdOf(i + 1), "sequential") : i \in 1..(NSteps - 1)}

\* C6: a workflow with N >= 1 steps, no actions and declared outputs yields
\* the N+2 nodes input, steps in declared order, output, and exactly the
\* N+1 sequential edges input->step1, step_i->step_i+1, stepN->output.
C6_SequentialFlow ==
    (NSteps >= 1 /\ NoActions /\ workflow.outputs) =>
        /\ Len(nodes) = NSteps + 2
        /\ nodes[1] = Node(INPUT, "input")
        /\ \A i \in 1..NSteps : nodes[i + 1] = Node(NodeIdOf(i), "step")
        /\ nodes[NSteps + 2] = Node(OUTPUT, "output")
        /\ Len(edges) = NSteps + 1
        /\ Range(edges) = SequentialEdges

C6_Witness ==
    /\ NSteps = 3 /\ NoActions /\ workflow.outputs
    /\ Len(nodes) = 5 /\ Len(edges) = 4

\* step i has an onSuccess goto to the stepId of an earlier step j
BackwardGoto(i, j) ==
    /\ j < i
    /\ \E a \in ActionsOf(Steps[i].onSuccess, {"goto"}) : StepIdOf(a) = Steps[j].stepId

\* C7: an onSuccess goto of step i to an earlier step j removes the default
\* edge step_i->step_i+1 and adds the success edge step_i->step_j; every
\* step node is still produced and every other step without an explicit
\* next keeps its default edge.
C7_BackwardGoto ==
    \A i \in DOMAIN Steps : \A j \in DOMAIN Steps :
        BackwardGoto(i, j) =>
            /\ i < NSteps => ~HasEdge(NodeIdOf(i), NodeIdOf(i + 1), "sequential")
            /\ HasEdge(NodeIdOf(i), NodeIdOf(j), "success")
            /\ \A k \in DOMAIN Steps : Node(NodeIdOf(k), "step") \in Range(nodes)
            /\ HasEdge(INPUT, NodeIdOf(1), "sequential")
            /\ \A k \in 1..(NSteps - 1) :
                  ActionsOf(Steps[k].onSuccess, {"goto", "end"}) = {} =>
                      HasEdge(NodeIdOf(k), NodeIdOf(k + 1), "sequential")

C7_Witness ==
    /\ NSteps = 3 /\ BackwardGoto(2, 1)
    /\ HasEdge(NodeIdOf(2), NodeIdOf(1), "success")
    /\ HasEdge(NodeIdOf(1), NodeIdOf(2), "sequential")

\* the goto and retry actions of step i whose stepId names no step
DanglingActions(i) ==
    {a \in ActionsOf(Steps[i].onSuccess, {"goto", "retry"})
           \cup ActionsOf(Steps[i].onFailure, {"goto", "retry"}) :
        StepIdOf(a) # NoId /\ StepIdOf(a) \notin StepIds}

\* C8 (as claimed): a goto or retry action whose stepId names no step of
\* the workflow adds no edge: no edge leads from its step to that target.
C8_DanglingTargetAddsNoEdge ==
    \A i \in DOMAIN Steps : \A a \in DanglingActions(i) :
        \A k \in DOMAIN edges :
            ~(edges[k].from = NodeIdOf(i) /\ edges[k].to = sanitizeId(StepIdOf(a)))

\* C9 (as claimed): with error flows shown, every onFailure retry whose
\* target step exists yields a failure edge from its step to the target.
C9_RetryEdge ==
    ~hideErrorFlows =>
        \A i \in DOMAIN Steps :
            \A a \in ActionsOf(Steps[i].onFailure, {"retry"}) :
                StepIdOf(a) \in StepIds =>
                    HasEdge(NodeIdOf(i), sanitizeId(StepIdOf(a)), "failure")


\* C18: a step that has a successor gets the default edge to it exactly when
\* its onSuccess holds no goto or end action that is not a reusable
\* reference; the action's name, criteria and target (a step of the workflow,
\* a step that does not exist, another workflow) play no part, and neither
\* do the step's onFailure actions.
C18_DefaultEdgeIffNoExplicitNext ==
    \A i \in 1..(NSteps - 1) :
        HasEdge(NodeIdOf(i), NodeIdOf(i + 1), "sequential")
            <=> ActionsOf(Steps[i].onSuccess, {"goto", "end"}) = {}

\* a goto to another workflow alone suppresses the default edge of the first
\* step, while the second step keeps its own in spite of a failure goto
C18_Witness ==
    /\ NSteps = 3
    /\ Steps[1].onSuccess = <<GotoWorkflow>>
    /\ ~HasEdge(NodeIdOf(1), NodeIdOf(2), "sequential")
    /\ Steps[2].onSuccess = <<>>
    /\ ActionsOf(Steps[2].onFailure, {"goto", "end"}) # {}
    /\ HasEdge(NodeIdOf(2), NodeIdOf(3), "sequential")

\* C19: when the workflow declares outputs, the last step gets the default
\* edge to the output node exactly when its onSuccess holds no end action
\* that is not a reusable reference, so the default edge never doubles an
\* explicit end edge of the last step; and when no step has a goto or an end
\* in onSuccess, the default edges lead from the input node through every
\* step to the output node.
C19_DefaultOutputEdge ==
    (workflow.outputs /\ NSteps > 0) =>
        /\ HasEdge(NodeIdOf(NSteps), OUTPUT, "sequential")
               <=> ActionsOf(Steps[NSteps].onSuccess, {"end"}) = {}
        /\ ~(/\ HasEdge(NodeIdOf(NSteps), OUTPUT, "sequential")
             /\ HasEdge(NodeIdOf(NSteps), OUTPUT, "success"))
        /\ (\A i \in DOMAIN Steps : ActionsOf(Steps[i].onSuccess, {"goto", "end"}) = {})
              => /\ HasEdge(INPUT, NodeIdOf(1), "sequential")
                 /\ \A i \in 1..(NSteps - 1) :
                       HasEdge(NodeIdOf(i), NodeIdOf(i + 1), "sequential")
                 /\ HasEdge(NodeIdOf(NSteps), OUTPUT, "sequential")

\* the last of two steps has a goto and no end: the default edge to the
\* output node is there next to the goto edge
C19_Witness ==
    /\ workflow.outputs
    /\ NSteps = 2
    /\ ActionsOf(Steps[2].onSuccess, {"goto"}) # {}
    /\ ActionsOf(Steps[2].onSuccess, {"end"}) = {}
    /\ HasEdge(NodeIdOf(2), NodeIdOf(1), "success")
    /\ HasEdge(NodeIdOf(2), OUTPUT, "sequential")

\* the last step ends explicitly: only the end edge reaches the output node
C19_WitnessEnd ==
    /\ workflow.outputs
    /\ NSteps = 2
    /\ EndAction \in ActionsOf(Steps[2].onSuccess, {"end"})
    /\ HasEdge(NodeIdOf(2), OUTPUT, "success")
    /\ ~HasEdge(NodeIdOf(2), OUTPUT, "sequential")

\* the success edges of step i that carry the label drawn from action a
HasLabelledEdge(i, to, a) ==
    \E k \in DOMAIN edges :
        /\ edges[k].from = NodeIdOf(i) /\ edges[k].to = to
        /\ edges[k].kind = "success"
        /\ "name" \in DOMAIN a => edges[k].label = sanitizeLabel(a.name)

\* a success edge of step i that leads neither to the output node nor to the
\* target of one of the step's goto actions with a stepId
HasPlaceholderEdge(i) ==
    \E k \in DOMAIN edges :
        /\ edges[k].from = NodeIdOf(i)
        /\ edges[k].kind = "success"
        /\ edges[k].to \notin
              {OUTPUT} \cup {sanitizeId(StepIdOf(b)) :
                                b \in {c \in ActionsOf(Steps[i].onSuccess, {"goto"}) :
                                          StepIdOf(c) # NoId}}

GotoStepEdges ==
    \A i \in DOMAIN Steps : \A a \in ActionsOf(Steps[i].onSuccess, {"goto"}) :
        StepIdOf(a) \in StepIds => HasLabelledEdge(i, sanitizeId(StepIdOf(a)), a)

EndEdges ==
    \A i \in DOMAIN Steps :
        ActionsOf(Steps[i].onSuccess, {"end"}) # {} => HasEdge(NodeIdOf(i), OUTPUT, "success")

GotoWorkflowEdges ==
    \A i \in DOMAIN Steps : \A a \in ActionsOf(Steps[i].onSuccess, {"goto"}) :
        (StepIdOf(a) = NoId /\ "workflowId" \in DOMAIN a) => HasPlaceholderEdge(i)

\* C20 (as claimed): every onSuccess action yields its edge: a goto to a step
\* of the workflow an edge of kind success to that step that carries the
\* action's name, a goto to another workflow an edge to a placeholder node,
\* an end an edge to the output node.
C20_ExplicitSuccessEdges == GotoStepEdges /\ GotoWorkflowEdges /\ EndEdges

\* the edges that the onFailure actions of the workflow yield
FailureEnds == {i \in DOMAIN Steps : ActionsOf(Steps[i].onFailure, {"end"}) # {}}
PositionsOf(id) == {k \in DOMAIN NodeList(nodes, edges) : NodeList(nodes, edges)[k].id = id}

\* C21: no edge of kind failure comes from an onSuccess action and no other
\* kind from an onFailure action: with error flows shown, every failure goto
\* to a step and every failure end yields an edge of kind failure, a failure
\* end leads to END_ERROR and never to OUTPUT, every edge into END_ERROR has
\* kind failure; END_ERROR is a node of the chart exactly when some failure
\* end is drawn, it is there once however many steps end in failure, and it
\* comes after every other node, OUTPUT included.
C21_FailureFlowsDistinct ==
    /\ \A k \in DOMAIN edges :
          /\ edges[k].kind = "failure" =>
                /\ ~hideErrorFlows
                /\ edges[k].to # OUTPUT
                /\ \E i \in DOMAIN Steps :
                      /\ edges[k].from = NodeIdOf(i)
                      /\ \E a \in ActionsOf(Steps[i].onFailure, {"goto", "end"}) :
                            edges[k].to = (IF TypeOf(a) = "end" THEN END_ERROR
                                           ELSE sanitizeId(StepIdOf(a)))
          /\ edges[k].to = END_ERROR => edges[k].kind = "failure"
    /\ ~hideErrorFlows =>
          \A i \in DOMAIN Steps :
              /\ i \in FailureEnds =>
                    /\ HasEdge(NodeIdOf(i), END_ERROR, "failure")
                    /\ ~HasEdge(NodeIdOf(i), OUTPUT, "failure")
              /\ \A a \in ActionsOf(Steps[i].onFailure, {"goto"}) :
                    StepIdOf(a) # NoId =>
                        HasEdge(NodeIdOf(i), sanitizeId(StepIdOf(a)), "failure")
    /\ Cardinality(PositionsOf(END_ERROR)) =
          (IF ~hideErrorFlows /\ FailureEnds # {} THEN 1 ELSE 0)
    /\ \A k \in PositionsOf(END_ERROR) : k = Len(NodeList(nodes, edges))

\* two steps both end in failure, the workflow declares outputs: one
\* END_ERROR node, after OUTPUT
C21_Witness ==
    /\ workflow.outputs
    /\ ~hideErrorFlows
    /\ NSteps = 2
    /\ FailureEnds = {1, 2}
    /\ HasEdge(NodeIdOf(1), END_ERROR, "failure")
    /\ HasEdge(NodeIdOf(2), END_ERROR, "failure")
    /\ Len(Declarations(nodes, edges)) = 6
    /\ Len(NodeList(nodes, edges)) = 5
    /\ NodeList(nodes, edges)[4].id = OUTPUT
    /\ NodeList(nodes, edges)[5].id = END_ERROR

\* the ids of the nodes of the chart
NodeIds == {NodeList(nodes, edges)[k].id : k \in DOMAIN NodeList(nodes, edges)}

\* the edges with an endpoint that is no node of the chart
LooseEdges == {k \in DOMAIN edges : ~({edges[k].from, edges[k].to} \subseteq NodeIds)}

\* C24 (as claimed): both endpoints of every edge are nodes of the chart:
\* INPUT, the steps, OUTPUT when the workflow declares outputs, END_ERROR
\* when a failure end is drawn.
C24_EdgesBetweenNodes == LooseEdges = {}

\* C25 (as claimed): steps with different stepIds have different node ids,
\* and no step has the node id of INPUT, OUTPUT or END_ERROR.
C25_NodeIdsDistinct ==
    \A i \in DOMAIN Steps :
        /\ NodeIdOf(i) \notin {INPUT, OUTPUT, END_ERROR}
        /\ \A j \in DOMAIN Steps :
              Steps[i].stepId # Steps[j].stepId => NodeIdOf(i) # NodeIdOf(j)

OutlineCurrent == symbolsAt = nChanges

\* the symbols of a list that have the given name
Named(list, name) == {list[i] : i \in {x \in DOMAIN list : list[x].name = name}}

\* the value of key k of map n when it is a scalar, "" otherwise
ScalarOr(n, k) == IF has(n, k) /\ isScalar(get(n, k)) THEN get(n, k).value ELSE ""
HasScalar(n, k) == has(n, k) /\ isScalar(get(n, k))

\* symbol s is the Method-kind group of the steps sequence `steps`
StepsGroup(s, steps) ==
    /\ s.kind = "Method"
    /\ isSeq(steps) =>
          /\ Len(s.children) = Len(steps.items)
          /\ \A k \in DOMAIN steps.items :
                (isMap(steps.items[k]) /\ HasScalar(steps.items[k], "stepId")) =>
                    /\ s.children[k].name = get(steps.items[k], "stepId").value
                    /\ s.children[k].kind = "Function"
                    /\ s.children[k].detail = ScalarOr(steps.items[k], "description")

\* symbol s is the Class-kind group of the workflows sequence `wfs`
WorkflowsGroup(s, wfs) ==
    /\ s.kind = "Class"
    /\ isSeq(wfs) =>
          /\ Len(s.children) = Len(wfs.items)
          /\ \A j \in DOMAIN wfs.items :
                (isMap(wfs.items[j]) /\ HasScalar(wfs.items[j], "workflowId")) =>
                    /\ s.children[j].name = get(wfs.items[j], "workflowId").value
                    /\ s.children[j].detail = ScalarOr(wfs.items[j], "summary")
                    /\ has(wfs.items[j], "steps") =>
                          \E g \in Named(s.children[j].children, "steps") :
                              StepsGroup(g, get(wfs.items[j], "steps"))

\* C13 (as claimed): the outline of a document with a `workflows` key has a
\* Class-kind symbol `workflows` with one child per workflow, named by its
\* workflowId with its summary as detail, and each workflow's `steps` key
\* has a Method-kind symbol with one Function-kind child per step, in
\* declared order, named by its stepId with its description as detail.
C13_OutlineProjection ==
    (OutlineCurrent /\ isMap(doc.root) /\ has(doc.root, "workflows")) =>
        \E s \in Named(symbols, "workflows") :
            WorkflowsGroup(s, get(doc.root, "workflows"))

\* tree holds one symbol per key of a map, from the key's start to the end
\* of its value, and one per item of a sequence, with the item's range, and
\* so do the children of each symbol
RECURSIVE Covers(_, _)
Covers(tree, node) ==
    IF isMap(node)
    THEN /\ Len(tree) = Cardinality(DOMAIN node.items)
         /\ \A k \in DOMAIN node.items :
               \E i \in DOMAIN tree :
                   /\ tree[i].name = k
                   /\ tree[i].range = <<node.keys[k][1], get(node, k).range[3]>>
                   /\ Covers(tree[i].children, get(node, k))
    ELSE IF isSeq(node)
    THEN /\ Len(tree) = Len(node.items)
         /\ \A i \in DOMAIN node.items :
               /\ tree[i].range = <<node.items[i].range[1], node.items[i].range[3]>>
               /\ Covers(tree[i].children, node.items[i])
    ELSE tree = <<>>

\* the workflows without workflowId and the steps without stepId are in the
\* tree, named by their index
UnnamedByIndex ==
    \A s \in Named(symbols, "workflows") :
        \A j \in WorkflowIndexes :
            /\ ~has(WorkflowAt(j), "workflowId") => s.children[j].name = Digit(j - 1)
            /\ \A g \in Named(s.children[j].children, "steps") :
                  isSeq(get(WorkflowAt(j), "steps")) =>
                      \A k \in DOMAIN get(WorkflowAt(j), "steps").items :
                          LET step == get(WorkflowAt(j), "steps").items[k]
                          IN (isMap(step) /\ ~has(step, "stepId")) =>
                                 g.children[k].name = Digit(k - 1)

\* C14 (as claimed): whatever validation errors the document has, its
\* outline holds a symbol with its source range for every map key and every
\* sequence item, and a workflow without workflowId or a step without stepId
\* is in it, named by its index.
C14_OutlineOfInvalidDocument ==
    OutlineCurrent => (Covers(symbols, ParsedRoot) /\ UnnamedByIndex)


(***************************************************************************)
(* Properties of the panel registry (specification SpecPanels).            *)
(***************************************************************************)
\* C17: there is at most one live panel per document URI, and the keys of
\* the registry are exactly the URIs of the live panels, each key holding
\* the live panel of its URI.
C17_OnePanelPerDocument ==
    /\ \A p \in Live : \A q \in Live : p.resourceUri = q.resourceUri => p = q
    /\ DOMAIN panels = {UriString(p.resourceUri) : p \in Live}
    /\ \A p \in Live : panels[UriString(p.resourceUri)] = p

\* a document whose panel was disposed has a fresh panel, next to the panel
\* of another document
C17_Witness ==
    \E p \in disposed : \E q \in Live : \E r \in Live :
        /\ q.resourceUri = p.resourceUri /\ q # p
        /\ r.resourceUri # q.resourceUri

UpdatePosted(v) ==
    \E k \in DOMAIN channel : channel[k].type = "update" /\ channel[k].spec >= v

\* C27 (as claimed): a 'ready' message is followed by an 'update' message
\* with the document's content when the root of the document is a map, and
\* every change of the document that has an open panel is followed by an
\* 'update' message with content at least as new as the change.
C27_PreviewFollowsDocument ==
    /\ \A v \in 1..(MaxChanges + 1) :
          (readyPending /\ docVersion = v /\ [](docIsMap /\ docVersion = v))
              ~> UpdatePosted(v)
    /\ \A v \in 2..(MaxChanges + 1) :
          (panelOpen /\ docVersion = v /\ awaiting > 0) ~> UpdatePosted(v)

(***************************************************************************)
(* Properties of the diagnostic collection (specification SpecDocs).       *)
(***************************************************************************)
OpenYaml == {u \in DOMAIN documents : documents[u].lang = "yaml"}

\* C23: the diagnostics set for every open yaml document are those of the
\* validation of its current text and nothing else, and an open or change
\* event of one document leaves the diagnostics of every other uri as they
\* were.
C23_DiagnosticsRebuilt ==
    /\ [](\A u \in OpenYaml : GetDiagnostics(diagnosticCollection, u) = validate(documents[u]))
    /\ [][\A u \in DocUris :
            (u \in DOMAIN documents' /\ u \in DOMAIN documents
               /\ documents'[u] = documents[u]
               /\ \E v \in DocUris \ {u} :
                     v \in DOMAIN documents' /\
                       (v \notin DOMAIN documents \/ documents'[v] # documents[v]))
            => GetDiagnostics(diagnosticCollection', u)
                 = GetDiagnostics(diagnosticCollection, u)]_vars

\* two yaml documents are open: one is valid and has no diagnostics, the
\* other has a syntax error and keeps its own diagnostic
C23_Witness ==
    \E u \in OpenYaml : \E v \in OpenYaml \ {u} :
        /\ documents[u].root = MinimalRoot /\ documents[u].errors = <<>>
        /\ GetDiagnostics(diagnosticCollection, u) = <<>>
        /\ documents[v].errors # <<>>
        /\ Len(GetDiagnostics(diagnosticCollection, v)) = 1


(***************************************************************************)
(* Properties of ActionFormEditor (specification SpecActions).             *)
(***************************************************************************)
\* the positions (from 1) of the named action the form holds
Opened == {k \in DOMAIN actions : actions[k].name = formData.name}

\* C28 (as claimed): while the form is open in edit mode, editingIndex
\* designates a position of the list and the action there is the one that
\* was opened; the step that closes the form in edit mode leaves the list
\* as it was or replaces that action by the form's data and nothing else,
\* and the one that closes it in add mode leaves the list as it was or
\* appends the form's data.
C28_SaveReplacesOpenedAction ==
    /\ []((showAddForm /\ editingIndex # -1) =>
            /\ editingIndex < Len(actions)
            /\ formData.name # 0 => Opened = {editingIndex + 1})
    /\ [][(showAddForm /\ ~showAddForm') =>
            IF editingIndex # -1
            THEN \/ actions' = actions
                 \/ /\ editingIndex < Len(actions)
                    /\ actions' = [actions EXCEPT ![editingIndex + 1] = formData]
                    /\ formData.name # 0 => Opened = {editingIndex + 1}
            ELSE actions' = actions \/ actions' = Append(actions, formData)]_vars


(***************************************************************************)
(* Properties of WorkflowInputsEditor (specification SpecInputs).          *)
(***************************************************************************)
\* C29 (as claimed): in every state the editor can reach, Add Input keeps
\* every property and the required list as they are and makes the number
\* of properties one more.
C29_AddKeepsInputs ==
    LET after == PropertyAdded(inputs)
    IN /\ \A key \in DOMAIN inputs.properties :
            /\ key \in DOMAIN after.properties
            /\ after.properties[key] = inputs.properties[key]
       /\ after.required = inputs.required
       /\ Cardinality(DOMAIN after.properties) = Cardinality(DOMAIN inputs.properties) + 1


(***************************************************************************)
(* Properties of ExpressionInput (specification SpecExpr).                 *)
(***************************************************************************)
\* C30 (as claimed): while the dropdown is shown with suggestions, the
\* selected index is an index of the filtered suggestions.
C30_SelectedIndexInRange ==
    (showDropdown /\ Len(Filtered) > 0) =>
        (0 <= selectedIndex /\ selectedIndex <= Len(Filtered) - 1)

=============================================================================
